---- MODULE Spec2Model ----
(***************************************************************************)
(* Process supervisor and session store of the Palethea launcher:          *)
(* launch_instance, its exit-watcher thread, kill_game, and the startup    *)
(* crash recovery, together with the three JSON documents they rewrite     *)
(* (instances.json, active_sessions.json, session_history.json) and the    *)
(* in-memory RUNNING_PROCESSES map.  The preparation of a launch is        *)
(* modelled beside it: the evaluation of rule lists, download_file on a    *)
(* shared path, and launch_game with its merge of the loader descriptor    *)
(* and its classpath.                                                      *)
(*                                                                         *)
(* Every file read, file write and mutex section of the source is one      *)
(* step, so that the interleavings of the tokio command tasks and of the   *)
(* std::thread watchers are the interleavings of the model.                *)
(***************************************************************************)
EXTENDS Integers, Sequences, FiniteSets, TLC

(* ------------------------------ bounds -------------------------------- *)

\* number of launch_instance invocations over a run; they may all overlap
MaxCalls == 2
\* number of kill_game invocations that find their instance running
MaxKills == 1
\* seconds the clock advances in single steps (per long gap)
MaxSecs == 1
\* number of long (24 h) gaps of the clock
MaxGaps == 1
\* number of launcher crashes followed by a restart
MaxRestarts == 1
\* longest rule list of a library or of an argument
MaxRules == 2
\* number of download_file calls on one path that may overlap
MaxDownloads == 2
\* number of write calls write_all needs for the body of a response
MaxChunks == 2
\* longest library list of a descriptor
MaxLibs == 2
\* number of Java installations under /usr/lib/jvm
MaxJavas == 1
\* number of commands on accounts.json
MaxCommands == 5
\* number of polls of the token endpoint
MaxPolls == 3
\* number of files of a modpack
MaxFiles == 11
\* number of other commands that call one site at a time
MaxRequests == 2

(* ------------------------- program constants -------------------------- *)

\* sanity cap of recover_orphaned_sessions, in seconds
SESSION_CAP == 86400

Instances == {"i1", "i2"}
\* one slot per invocation of launch_instance
Tasks == 1..MaxCalls
\* every invocation spawns at most one game process
Pids == 1..MaxCalls

\* Option<String> last_played = None
NoTime == -1

VARIABLES
    now,                \* SystemTime::now() as seconds since the epoch
    up,                 \* the launcher process is running
    restarts,           \* launcher crashes so far
    instFile,           \* instances.json: instance id -> Instance (its statistics)
    sessFile,           \* active_sessions.json: instance id -> GameSession
    history,            \* session_history.json: sequence of SessionRecord
    RUNNING_PROCESSES,  \* instance id -> RunningProcessInfo
    owner,              \* OS process table: pid -> instance the game was spawned for
    alive,              \* pids of the game processes that are running
    task,               \* launch_instance invocations
    watcher,            \* exit-watcher threads, one per game process
    killer,             \* the kill_game invocation
    calls,              \* launch_instance invocations so far
    killed,             \* pids that kill_game has terminated
    credited,           \* pid -> number of playtime credits written for its session
    startupLog,         \* what the last startup did with each persisted session
    rules,              \* the "rules" of a library or of an argument
    has_custom_resolution, \* the instance defines both width and height
    verdict,            \* what the evaluation of `rules` returned
    expected_sha1,      \* Option<&str>: the hash download_file is given
    disk,               \* the file at the destination path of the downloads
    download,           \* download_file invocations on that path
    descriptors,        \* what launch_game is given: the instance's loader, the
                        \* vanilla descriptor and what the loader left on disk
    launching,          \* launch_game: its position and its locals
    selecting,          \* select_java_for_launch: the Javas of the host, the
                        \* descriptor's requirement and what was returned
    versioning,         \* download_version: its position, the files it wrote
    login,              \* poll_for_token: the device-code polling loop
    store,              \* accounts.json and the commands that rewrite it
    installer,          \* install_forge / install_neoforge
    http                \* the calls to Modrinth and CurseForge

\* the evaluation of a rule list
ruling == <<rules, has_custom_resolution, verdict>>

\* the downloads of one artifact
downloading == <<expected_sha1, disk, download>>

\* what a launch prepares before the game is spawned
\* one call of launch_game
launch == <<descriptors, launching>>

\* the commands that are not part of a launch, and the Java locator
services == <<selecting, versioning, login, store, installer, http>>

preparation == <<ruling, downloading, launch, services>>

\* the process supervisor, its files and the game processes
supervisor == <<now, up, restarts, instFile, sessFile, history, RUNNING_PROCESSES,
                owner, alive, task, watcher, killer, calls, killed, credited,
                startupLog>>

vars == <<now, up, restarts, instFile, sessFile, history, RUNNING_PROCESSES,
          owner, alive, task, watcher, killer, calls, killed, credited, startupLog,
          preparation>>

\* the launcher process and the counters of what was done to it
process == <<up, restarts, calls, startupLog>>
\* the game processes of the operating system
games == <<owner, alive, killed>>

(* ------------------------------ helpers ------------------------------- *)

EmptyMap == [x \in {} |-> 0]

Put(f, k, v) == [x \in (DOMAIN f) \cup {k} |-> IF x = k THEN v ELSE f[x]]

Remove(f, k) == [x \in (DOMAIN f) \ {k} |-> f[x]]

\* u64::saturating_sub
saturating_sub(a, b) == IF a >= b THEN a - b ELSE 0

\* Instance::new: the statistics of a fresh instance
NewInstance == [playtime_seconds |-> 0, total_launches |-> 0, last_played |-> NoTime]

\* instances::get_instance: load_instances, then find by id
get_instance(file, id) == file[id]

\* instances::update_instance on the list it loaded: replace the record, save all
update_instance(loaded, id, inst) == [loaded EXCEPT ![id] = inst]

\* instances::write_active_session on the map it loaded
write_active_session(loaded, id, start_time, pid) ==
    Put(loaded, id, [instance_id |-> id, start_time |-> start_time, pid |-> pid])

\* instances::clear_active_session on the map it loaded
clear_active_session(loaded, id) == Remove(loaded, id)

\* log_session without its test for a zero duration
log_session_always(records, id, timestamp, duration) ==
    Append(records, [instance_id |-> id, timestamp |-> timestamp,
                     duration_seconds |-> duration])

\* instances::log_session: zero-length sessions are not recorded
log_session(records, id, timestamp, duration) ==
    IF duration = 0
    THEN records
    ELSE Append(records, [instance_id |-> id, timestamp |-> timestamp,
                          duration_seconds |-> duration])

\* launch_instance: the record it writes back before launching
LaunchStats(instance, start_time) ==
    [instance EXCEPT !.last_played = start_time,
                     !.total_launches = instance.total_launches + 1]

\* the exit-watcher with = in place of +=
WatcherCreditOverwrites(inst, base, duration) ==
    [inst EXCEPT !.playtime_seconds = duration]

\* exit-watcher of launch_instance: inst.playtime_seconds += session_duration
WatcherCredit(inst, base, duration) ==
    [inst EXCEPT !.playtime_seconds = inst.playtime_seconds + duration]

\* watcher of a re-registered session: playtime = current_playtime + duration
RecoveredCredit(inst, base, duration) ==
    [inst EXCEPT !.playtime_seconds = base + duration]

(* --------------------------- thread records --------------------------- *)

IdleTask ==
    [pc |-> "idle", id |-> "", instance |-> NewInstance, start_time |-> 0,
     pid |-> 0, insts |-> EmptyMap, sess |-> EmptyMap, did |-> <<>>]

NoWatcher ==
    [pc |-> "none", kind |-> "", id |-> "", start_time |-> 0, base |-> 0,
     end_time |-> 0, inst |-> NewInstance, insts |-> EmptyMap, sess |-> EmptyMap]

IdleKiller == [pc |-> "idle", id |-> "", pid |-> 0, sess |-> EmptyMap]

SupervisorInit ==
    /\ now = 0
    /\ up = TRUE
    /\ restarts = 0
    /\ instFile = [i \in Instances |-> NewInstance]
    /\ sessFile = EmptyMap
    /\ history = <<>>
    /\ RUNNING_PROCESSES = EmptyMap
    /\ owner = EmptyMap
    /\ alive = {}
    /\ task = [t \in Tasks |-> IdleTask]
    /\ watcher = [p \in Pids |-> NoWatcher]
    /\ killer = IdleKiller
    /\ calls = 0
    /\ killed = {}
    /\ credited = [p \in Pids |-> 0]
    /\ startupLog = {}

(* ------------------------------ the clock ----------------------------- *)

\* something is measuring time: a game, a persisted session or a thread at work
Busy ==
    \/ alive # {}
    \/ DOMAIN sessFile # {}
    \/ \E t \in Tasks : task[t].pc # "idle"
    \/ \E p \in Pids : watcher[p].pc \notin {"none", "done"}
    \/ killer.pc # "idle"

\* one second passes
Tick ==
    /\ Busy
    /\ (now % SESSION_CAP) < MaxSecs
    /\ now' = now + 1
    /\ UNCHANGED <<preparation, process, games, instFile, sessFile, history, RUNNING_PROCESSES,
                   task, watcher, killer, credited>>

\* a day passes while the launcher is not running
LongGap ==
    /\ ~up
    /\ DOMAIN sessFile # {}
    /\ (now \div SESSION_CAP) < MaxGaps
    /\ now' = now + SESSION_CAP
    /\ UNCHANGED <<preparation, process, games, instFile, sessFile, history, RUNNING_PROCESSES,
                   task, watcher, killer, credited>>

(* --------------------------- the game process ------------------------- *)

\* the game exits by itself
GameExit(p) ==
    /\ p \in alive
    /\ alive' = alive \ {p}
    /\ UNCHANGED <<preparation, now, process, owner, killed, instFile, sessFile, history,
                   RUNNING_PROCESSES, task, watcher, killer, credited>>

(* ---------------------------- launch_instance ------------------------- *)

\* the command is invoked: instances::get_instance
LaunchBegin(i) ==
    /\ up
    /\ calls < MaxCalls
    /\ calls' = calls + 1
    /\ task' = [task EXCEPT ![calls + 1] =
                  [IdleTask EXCEPT !.pc = "check", !.id = i,
                                   !.instance = get_instance(instFile, i)]]
    /\ UNCHANGED <<preparation, now, up, restarts, startupLog, games, instFile, sessFile, history,
                   RUNNING_PROCESSES, watcher, killer, credited>>

\* "This instance is already running"
LaunchRefused(t) ==
    /\ up
    /\ task[t].pc = "check"
    /\ task[t].id \in DOMAIN RUNNING_PROCESSES
    /\ task' = [task EXCEPT ![t] = IdleTask]
    /\ UNCHANGED <<preparation, now, process, games, instFile, sessFile, history,
                   RUNNING_PROCESSES, watcher, killer, credited>>

\* the instance is not running; the version JSON is read and parsed, or is not
LaunchCheck(t, json_ok) ==
    /\ up
    /\ task[t].pc = "check"
    /\ task[t].id \notin DOMAIN RUNNING_PROCESSES
    /\ task' = [task EXCEPT ![t] =
                  IF json_ok THEN [@ EXCEPT !.pc = "stats_load"] ELSE IdleTask]
    /\ UNCHANGED <<preparation, now, process, games, instFile, sessFile, history,
                   RUNNING_PROCESSES, watcher, killer, credited>>

\* start_time = now; update_instance: load_instances
LaunchStatsLoad(t) ==
    /\ up
    /\ task[t].pc = "stats_load"
    /\ task' = [task EXCEPT ![t] =
                  [@ EXCEPT !.pc = "stats_save", !.start_time = now,
                            !.insts = instFile]]
    /\ UNCHANGED <<preparation, now, process, games, instFile, sessFile, history,
                   RUNNING_PROCESSES, watcher, killer, credited>>

\* update_instance: save_instances
LaunchStatsSave(t) ==
    /\ up
    /\ task[t].pc = "stats_save"
    /\ instFile' = update_instance(task[t].insts, task[t].id,
                                   LaunchStats(task[t].instance, task[t].start_time))
    /\ task' = [task EXCEPT ![t] =
                  [@ EXCEPT !.pc = "launch_game", !.insts = EmptyMap]]
    /\ UNCHANGED <<preparation, now, process, games, sessFile, history, RUNNING_PROCESSES,
                   watcher, killer, credited>>

\* launcher::launch_game returns Err: download, merge, Java, natives or spawn
LaunchFailed(t) ==
    /\ up
    /\ task[t].pc = "launch_game"
    /\ task' = [task EXCEPT ![t] = IdleTask]
    /\ UNCHANGED <<preparation, now, process, games, instFile, sessFile, history,
                   RUNNING_PROCESSES, watcher, killer, credited>>

\* the statements after the spawn with the map entry recorded first
after_spawn_map_first(step) ==
    CASE step = "launch_game" -> "register"
      [] step = "register"    -> "sess_load"
      [] step = "sess_load"   -> "sess_save"
      [] step = "sess_save"   -> "watch"
      [] step = "watch"       -> "idle"

\* launch_instance after launch_game has returned the child: the statement
\* that follows each statement (write_active_session, processes.insert,
\* std::thread::spawn, Ok)
after_spawn(step) ==
    CASE step = "launch_game" -> "sess_load"
      [] step = "sess_load"   -> "sess_save"
      [] step = "sess_save"   -> "register"
      [] step = "register"    -> "watch"
      [] step = "watch"       -> "idle"

\* the invocation has executed `step` and goes on to the next statement
Advance(rec, step) ==
    IF after_spawn(step) = "idle"
    THEN IdleTask
    ELSE [rec EXCEPT !.pc = after_spawn(step), !.did = Append(@, step)]

\* launcher::launch_game returns the spawned child
LaunchSpawned(t) ==
    /\ up
    /\ task[t].pc = "launch_game"
    /\ LET p == Cardinality(DOMAIN owner) + 1 IN
         /\ owner' = Put(owner, p, task[t].id)
         /\ alive' = alive \cup {p}
         /\ task' = [task EXCEPT ![t] =
                       Advance([@ EXCEPT !.pid = p], "launch_game")]
    /\ UNCHANGED <<preparation, now, process, killed, instFile, sessFile, history,
                   RUNNING_PROCESSES, watcher, killer, credited>>

\* write_active_session: load_active_sessions
LaunchSessLoad(t) ==
    /\ up
    /\ task[t].pc = "sess_load"
    /\ task' = [task EXCEPT ![t] = Advance([@ EXCEPT !.sess = sessFile], "sess_load")]
    /\ UNCHANGED <<preparation, now, process, games, instFile, sessFile, history,
                   RUNNING_PROCESSES, watcher, killer, credited>>

\* write_active_session: save_active_sessions
LaunchSessSave(t) ==
    /\ up
    /\ task[t].pc = "sess_save"
    /\ sessFile' = write_active_session(task[t].sess, task[t].id,
                                        task[t].start_time, task[t].pid)
    /\ task' = [task EXCEPT ![t] = Advance([@ EXCEPT !.sess = EmptyMap], "sess_save")]
    /\ UNCHANGED <<preparation, now, process, games, instFile, history, RUNNING_PROCESSES,
                   watcher, killer, credited>>

\* processes.insert(instance_id, RunningProcessInfo { pid, start_time })
LaunchRegister(t) ==
    /\ up
    /\ task[t].pc = "register"
    /\ RUNNING_PROCESSES' = Put(RUNNING_PROCESSES, task[t].id,
                                [pid |-> task[t].pid, start_time |-> task[t].start_time])
    /\ task' = [task EXCEPT ![t] = Advance(@, "register")]
    /\ UNCHANGED <<preparation, now, process, games, instFile, sessFile, history,
                   watcher, killer, credited>>

\* std::thread::spawn of the exit-watcher; the command returns Ok
LaunchWatch(t) ==
    /\ up
    /\ task[t].pc = "watch"
    /\ watcher' = [watcher EXCEPT ![task[t].pid] =
                     [NoWatcher EXCEPT !.pc = "wait", !.kind = "child",
                                       !.id = task[t].id,
                                       !.start_time = task[t].start_time]]
    /\ task' = [task EXCEPT ![t] = Advance(@, "watch")]
    /\ UNCHANGED <<preparation, now, process, games, instFile, sessFile, history,
                   RUNNING_PROCESSES, killer, credited>>

(* ----------------------------- exit-watcher --------------------------- *)

\* end_time.saturating_sub(start_time)
session_duration(w) == saturating_sub(w.end_time, w.start_time)

\* child.wait() returns (or is_process_running(pid) turns false): end_time = now
WatcherWake(p) ==
    /\ up
    /\ watcher[p].pc = "wait"
    /\ p \notin alive
    /\ watcher' = [watcher EXCEPT ![p] = [@ EXCEPT !.pc = "get", !.end_time = now]]
    /\ UNCHANGED <<preparation, now, process, games, instFile, sessFile, history,
                   RUNNING_PROCESSES, task, killer, credited>>

\* instances::get_instance, then the playtime of the copy is set
WatcherGet(p) ==
    /\ up
    /\ watcher[p].pc = "get"
    /\ LET w == watcher[p]
           inst == get_instance(instFile, w.id)
           credit == IF w.kind = "child"
                     THEN WatcherCredit(inst, w.base, session_duration(w))
                     ELSE RecoveredCredit(inst, w.base, session_duration(w))
       IN watcher' = [watcher EXCEPT ![p] = [@ EXCEPT !.pc = "upd_load", !.inst = credit]]
    /\ UNCHANGED <<preparation, now, process, games, instFile, sessFile, history,
                   RUNNING_PROCESSES, task, killer, credited>>

\* update_instance: load_instances
WatcherUpdLoad(p) ==
    /\ up
    /\ watcher[p].pc = "upd_load"
    /\ watcher' = [watcher EXCEPT ![p] = [@ EXCEPT !.pc = "upd_save", !.insts = instFile]]
    /\ UNCHANGED <<preparation, now, process, games, instFile, sessFile, history,
                   RUNNING_PROCESSES, task, killer, credited>>

\* update_instance: save_instances
WatcherUpdSave(p) ==
    /\ up
    /\ watcher[p].pc = "upd_save"
    /\ instFile' = update_instance(watcher[p].insts, watcher[p].id, watcher[p].inst)
    /\ credited' = [credited EXCEPT ![p] = @ + 1]
    /\ watcher' = [watcher EXCEPT ![p] =
                     [@ EXCEPT !.pc = "log", !.insts = EmptyMap, !.inst = NewInstance]]
    /\ UNCHANGED <<preparation, now, process, games, sessFile, history, RUNNING_PROCESSES,
                   task, killer>>

\* instances::log_session
WatcherLog(p) ==
    /\ up
    /\ watcher[p].pc = "log"
    /\ history' = log_session(history, watcher[p].id, watcher[p].end_time,
                              session_duration(watcher[p]))
    /\ watcher' = [watcher EXCEPT ![p] = [@ EXCEPT !.pc = "clr_load"]]
    /\ UNCHANGED <<preparation, now, process, games, instFile, sessFile, RUNNING_PROCESSES,
                   task, killer, credited>>

\* clear_active_session: load_active_sessions
WatcherClrLoad(p) ==
    /\ up
    /\ watcher[p].pc = "clr_load"
    /\ watcher' = [watcher EXCEPT ![p] = [@ EXCEPT !.pc = "clr_save", !.sess = sessFile]]
    /\ UNCHANGED <<preparation, now, process, games, instFile, sessFile, history,
                   RUNNING_PROCESSES, task, killer, credited>>

\* clear_active_session: save_active_sessions
WatcherClrSave(p) ==
    /\ up
    /\ watcher[p].pc = "clr_save"
    /\ sessFile' = clear_active_session(watcher[p].sess, watcher[p].id)
    /\ watcher' = [watcher EXCEPT ![p] = [@ EXCEPT !.pc = "unreg", !.sess = EmptyMap]]
    /\ UNCHANGED <<preparation, now, process, games, instFile, history, RUNNING_PROCESSES,
                   task, killer, credited>>

\* processes.remove(&instance_id_clone); the thread ends
WatcherUnregister(p) ==
    /\ up
    /\ watcher[p].pc = "unreg"
    /\ RUNNING_PROCESSES' = Remove(RUNNING_PROCESSES, watcher[p].id)
    /\ watcher' = [watcher EXCEPT ![p] = [NoWatcher EXCEPT !.pc = "done"]]
    /\ UNCHANGED <<preparation, now, process, games, instFile, sessFile, history,
                   task, killer, credited>>

(* ------------------------------- kill_game ---------------------------- *)

\* "Instance is not running"
KillRefused(i) ==
    /\ up
    /\ killer.pc = "idle"
    /\ i \notin DOMAIN RUNNING_PROCESSES
    /\ UNCHANGED vars

\* processes.get(&instance_id), then kill -9 / taskkill of its pid
KillTerminate(i) ==
    /\ up
    /\ killer.pc = "idle"
    /\ i \in DOMAIN RUNNING_PROCESSES
    /\ Cardinality(killed) < MaxKills
    /\ alive' = alive \ {RUNNING_PROCESSES[i].pid}
    /\ killed' = killed \cup {RUNNING_PROCESSES[i].pid}
    /\ killer' = [IdleKiller EXCEPT !.pc = "unreg", !.id = i,
                                    !.pid = RUNNING_PROCESSES[i].pid]
    /\ UNCHANGED <<preparation, now, process, owner, instFile, sessFile, history,
                   RUNNING_PROCESSES, task, watcher, credited>>

\* processes.remove(&instance_id)
KillUnregister ==
    /\ up
    /\ killer.pc = "unreg"
    /\ RUNNING_PROCESSES' = Remove(RUNNING_PROCESSES, killer.id)
    /\ killer' = [killer EXCEPT !.pc = "clr_load"]
    /\ UNCHANGED <<preparation, now, process, games, instFile, sessFile, history,
                   task, watcher, credited>>

\* clear_active_session: load_active_sessions
KillClrLoad ==
    /\ up
    /\ killer.pc = "clr_load"
    /\ killer' = [killer EXCEPT !.pc = "clr_save", !.sess = sessFile]
    /\ UNCHANGED <<preparation, now, process, games, instFile, sessFile, history,
                   RUNNING_PROCESSES, task, watcher, credited>>

\* clear_active_session: save_active_sessions; the command returns Ok
KillClrSave ==
    /\ up
    /\ killer.pc = "clr_save"
    /\ sessFile' = clear_active_session(killer.sess, killer.id)
    /\ killer' = IdleKiller
    /\ UNCHANGED <<preparation, now, process, games, instFile, history, RUNNING_PROCESSES,
                   task, watcher, credited>>

(* ------------------------ crash and crash recovery -------------------- *)

\* the launcher process is killed: its threads and its memory are gone, the
\* files and the game processes stay
Crash ==
    /\ up
    /\ Busy
    /\ restarts < MaxRestarts
    /\ up' = FALSE
    /\ restarts' = restarts + 1
    /\ RUNNING_PROCESSES' = EmptyMap
    /\ task' = [t \in Tasks |-> IdleTask]
    /\ watcher' = [p \in Pids |-> NoWatcher]
    /\ killer' = IdleKiller
    /\ UNCHANGED <<preparation, now, calls, startupLog, games, instFile, sessFile, history, credited>>

\* instances::is_process_running
is_process_running(pid) == pid \in alive

\* the sanity cap with < in place of <=
within_cap_strict(duration) == duration < SESSION_CAP

\* recover_orphaned_sessions: the sanity cap on a credited interval
within_cap(duration) == duration <= SESSION_CAP

\* the loop body without its `continue`: a session that is still running is
\* kept and is credited like one that has ended
RecoverOneCreditsLive(acc, session) ==
    LET id == session.instance_id
        original_playtime == get_instance(acc.file, id).playtime_seconds
        duration == saturating_sub(now, session.start_time)
        inst == get_instance(acc.file, id)
        entry == [instance_id |-> id, pid |-> session.pid,
                  start_time |-> session.start_time,
                  original_playtime |-> original_playtime, outcome |-> ""]
        kept == IF is_process_running(session.pid)
                THEN [acc EXCEPT !.still_running = Put(@, id, session),
                                 !.log = @ \cup {[entry EXCEPT !.outcome = "running"]}]
                ELSE acc
    IN  IF within_cap(duration)
        THEN [kept EXCEPT
                !.file = update_instance(@, id,
                            [inst EXCEPT !.playtime_seconds = @ + duration]),
                !.hist = log_session(@, id, now, duration),
                !.cred = [@ EXCEPT ![session.pid] = @ + 1],
                !.log = IF is_process_running(session.pid) THEN @
                        ELSE @ \cup {[entry EXCEPT !.outcome = "credited"]}]
        ELSE [kept EXCEPT
                !.log = IF is_process_running(session.pid) THEN @
                        ELSE @ \cup {[entry EXCEPT !.outcome = "discarded"]}]

\* recover_orphaned_sessions: the body of its loop, for one persisted session
RecoverOne(acc, session) ==
    LET id == session.instance_id
        original_playtime == get_instance(acc.file, id).playtime_seconds
        duration == saturating_sub(now, session.start_time)
        inst == get_instance(acc.file, id)
        entry == [instance_id |-> id, pid |-> session.pid,
                  start_time |-> session.start_time,
                  original_playtime |-> original_playtime, outcome |-> ""]
    IN  IF is_process_running(session.pid)
        THEN [acc EXCEPT !.still_running = Put(@, id, session),
                         !.log = @ \cup {[entry EXCEPT !.outcome = "running"]}]
        ELSE IF within_cap(duration)
        THEN [acc EXCEPT
                !.file = update_instance(@, id,
                            [inst EXCEPT !.playtime_seconds = @ + duration]),
                !.hist = log_session(@, id, now, duration),
                !.cred = [@ EXCEPT ![session.pid] = @ + 1],
                !.log = @ \cup {[entry EXCEPT !.outcome = "credited"]}]
        ELSE [acc EXCEPT !.log = @ \cup {[entry EXCEPT !.outcome = "discarded"]}]

RECURSIVE RecoverLoop(_, _, _)
\* recover_orphaned_sessions: the loop over the sessions, in the map's order
RecoverLoop(order, sessions, acc) ==
    IF order = <<>>
    THEN acc
    ELSE RecoverLoop(Tail(order), sessions, RecoverOne(acc, sessions[Head(order)]))

\* the orders in which a HashMap may hand out its keys
Orders(S) ==
    {s \in [1..Cardinality(S) -> S] :
        \A a, b \in 1..Cardinality(S) : a # b => s[a] # s[b]}

\* instances::recover_orphaned_sessions
recover_orphaned_sessions(order) ==
    RecoverLoop(order, sessFile,
                [file |-> instFile, hist |-> history, cred |-> credited,
                 still_running |-> EmptyMap, log |-> {}])

\* run: every session that is still running is re-registered and watched
Startup ==
    /\ ~up
    /\ up' = TRUE
    /\ \E order \in Orders(DOMAIN sessFile) :
         LET r == recover_orphaned_sessions(order)
             live == {e \in r.log : e.outcome = "running"}
         IN  /\ instFile' = r.file
             /\ history' = r.hist
             /\ credited' = r.cred
             /\ sessFile' = r.still_running
             /\ startupLog' = r.log
             /\ RUNNING_PROCESSES' =
                    [id \in {e.instance_id : e \in live} |->
                        LET e == CHOOSE e \in live : e.instance_id = id
                        IN [pid |-> e.pid, start_time |-> e.start_time]]
             /\ watcher' =
                    [p \in Pids |->
                        IF \E e \in live : e.pid = p
                        THEN LET e == CHOOSE e \in live : e.pid = p
                             IN [NoWatcher EXCEPT !.pc = "wait", !.kind = "recovered",
                                                  !.id = e.instance_id,
                                                  !.start_time = e.start_time,
                                                  !.base = e.original_playtime]
                        ELSE NoWatcher]
    /\ UNCHANGED <<preparation, now, restarts, calls, games, task, killer>>

(* --------------------------- rule evaluation -------------------------- *)

\* versions::get_os_name of the build that is modelled
get_os_name == "linux"

\* the feature names check_argument_rules names
QuickPlayFeatures ==
    {"is_quick_play_singleplayer", "is_quick_play_multiplayer",
     "is_quick_play_realms", "has_quick_plays_support"}

\* the "os" of a rule: absent, or the name it asks for
OsConditions == {{}, {"linux"}, {"windows"}}

\* the "features" of a rule: absent, one feature, or is_demo_user together
\* with has_custom_resolution
FeatureConditions ==
    {EmptyMap}
    \cup UNION {[{f} -> BOOLEAN] :
                  f \in {"is_demo_user", "has_custom_resolution",
                         "is_quick_play_multiplayer", "has_new_feature"}}
    \cup [{"is_demo_user", "has_custom_resolution"} -> BOOLEAN]

\* versions::Rule, and the rule objects of an argument
Rules == [action : {"allow", "deny"}, os : OsConditions, features : FeatureConditions]

\* Option<Vec<Rule>>: no "rules" at all, or a list
RuleLists == {{}} \cup {{l} : l \in UNION {[1..n -> Rules] : n \in 0..MaxRules}}

\* should_use_library: rule_applies
library_rule_applies(rule, os_name) == rule.os = {} \/ rule.os = {os_name}

RECURSIVE LibraryLoop(_, _, _)
\* should_use_library: the loop over the rules
LibraryLoop(rs, os_name, dominated_result) ==
    IF rs = <<>>
    THEN dominated_result
    ELSE LibraryLoop(Tail(rs), os_name,
                     IF library_rule_applies(Head(rs), os_name)
                     THEN Head(rs).action = "allow"
                     ELSE dominated_result)

\* should_use_library taking an empty list for no list
should_use_library_empty_allows(library_rules) ==
    IF library_rules = {} \/ library_rules = {<<>>}
    THEN TRUE
    ELSE LibraryLoop(CHOOSE l \in library_rules : TRUE, get_os_name, FALSE)

\* versions::should_use_library
should_use_library(library_rules) ==
    IF library_rules = {}
    THEN TRUE
    ELSE LibraryLoop(CHOOSE l \in library_rules : TRUE, get_os_name, FALSE)

\* check_argument_rules: `applies` at the end of the loop body
argument_rule_applies(rule, os_name, custom_resolution) ==
    LET named == DOMAIN rule.features
        by_os == IF rule.os # {} THEN rule.os = {os_name} ELSE TRUE
        by_demo == IF "is_demo_user" \in named THEN FALSE ELSE by_os
        by_resolution == IF "has_custom_resolution" \in named
                         THEN custom_resolution ELSE by_demo
    IN  IF named \cap QuickPlayFeatures # {} THEN FALSE ELSE by_resolution

RECURSIVE ArgumentLoopFirstWins(_, _, _, _)
\* the loop leaving at the first rule that applies
ArgumentLoopFirstWins(rs, os_name, custom_resolution, result) ==
    IF rs = <<>>
    THEN result
    ELSE IF argument_rule_applies(Head(rs), os_name, custom_resolution)
         THEN Head(rs).action = "allow"
         ELSE ArgumentLoopFirstWins(Tail(rs), os_name, custom_resolution, result)

RECURSIVE ArgumentLoop(_, _, _, _)
\* check_argument_rules: the loop over the rules
ArgumentLoop(rs, os_name, custom_resolution, result) ==
    IF rs = <<>>
    THEN result
    ELSE ArgumentLoop(Tail(rs), os_name, custom_resolution,
                      IF argument_rule_applies(Head(rs), os_name, custom_resolution)
                      THEN Head(rs).action = "allow"
                      ELSE result)

\* launcher::check_argument_rules
check_argument_rules(obj_rules, os_name, custom_resolution) ==
    IF obj_rules = {}
    THEN TRUE
    ELSE ArgumentLoop(CHOOSE l \in obj_rules : TRUE, os_name, custom_resolution, FALSE)

\* nothing has been evaluated
RulingIdle ==
    /\ rules = {}
    /\ has_custom_resolution = FALSE
    /\ verdict = {}

\* a rule list of a descriptor is to be evaluated for an instance
RulingInit ==
    /\ rules \in RuleLists
    /\ has_custom_resolution \in BOOLEAN
    /\ verdict = {}

\* the list is evaluated as the list of a library and as that of an argument
Evaluate ==
    /\ verdict = {}
    /\ verdict' = {[library |-> should_use_library(rules),
                    argument |-> check_argument_rules(rules, get_os_name,
                                                      has_custom_resolution),
                    applies |-> IF rules = {} THEN <<>>
                                ELSE LET rs == CHOOSE l \in rules : TRUE
                                     IN [k \in DOMAIN rs |->
                                           argument_rule_applies(rs[k], get_os_name,
                                                                 has_custom_resolution)]]}
    /\ UNCHANGED <<supervisor, services, rules, has_custom_resolution, downloading, launch>>

(* ------------------------------ downloads ----------------------------- *)

Downloads == 1..MaxDownloads

\* the body of the response, as the write calls that put it on disk
AllChunks == 1..MaxChunks

\* no file at the path
NoFile == [inode |-> 0, chunks |-> {}, made |-> 0]

\* a download_file that has not been called, or has returned `result`
IdleDownload ==
    [pc |-> "idle", via |-> "", body |-> "", handle |-> 0, position |-> 0,
     result |-> ""]

Returned(result) == [IdleDownload EXCEPT !.pc = "done", !.result = result]

\* a download that made a request has returned `result`
ReturnedAfter(request, result) ==
    [Returned(result) EXCEPT !.via = request.via, !.body = request.body]

\* downloader::verify_sha1: the file exists and its content hashes to `expected`
verify_sha1(file, expected) == file.inode # 0 /\ file.chunks = AllChunks

\* path.exists()
exists(file) == file.inode # 0

\* no download has been asked for
DownloadingIdle ==
    /\ expected_sha1 = {}
    /\ disk = NoFile
    /\ download = [d \in Downloads |-> IdleDownload]

\* downloads of one artifact are about to be asked for; the path is free, or
\* holds the artifact, or holds the rest of an interrupted download
DownloadingInit ==
    /\ expected_sha1 \in {{}, {""}, {"sha1"}}
    /\ disk \in {NoFile} \cup
                {[inode |-> 1, chunks |-> c, made |-> 1] : c \in SUBSET AllChunks}
    /\ download = [d \in Downloads |-> IdleDownload]

\* download_file with a file kept for being there, whatever its hash
DownloadCheckKeepsAny(d) ==
    /\ download[d].pc = "idle"
    /\ LET keep == exists(disk)
       IN download' = [download EXCEPT ![d] =
                         IF keep THEN Returned("Ok")
                         ELSE [@ EXCEPT !.pc = "get", !.via = "download_file"]]
    /\ UNCHANGED <<supervisor, services, ruling, launch, expected_sha1, disk>>

\* download_file is called: the file is kept when it is there and verifies
DownloadCheck(d) ==
    /\ download[d].pc = "idle"
    /\ LET keep == IF expected_sha1 # {} /\ expected_sha1 # {""}
                   THEN verify_sha1(disk, CHOOSE h \in expected_sha1 : TRUE)
                   ELSE exists(disk)
       IN download' = [download EXCEPT ![d] =
                         IF keep THEN Returned("Ok")
                         ELSE [@ EXCEPT !.pc = "get", !.via = "download_file"]]
    /\ UNCHANGED <<supervisor, services, ruling, launch, expected_sha1, disk>>

\* what a GET request may end in: an error, the artifact, or other bytes
Responses == {"error", "artifact", "other"}

\* the GET request and the body of its response, or an error
DownloadGet(d, response) ==
    /\ download[d].pc = "get"
    /\ download[d].via = "download_file"
    /\ download' = [download EXCEPT ![d] =
                      IF response = "error" THEN ReturnedAfter(@, "Err(http)")
                      ELSE [@ EXCEPT !.pc = "create", !.body = response]]
    /\ UNCHANGED <<supervisor, services, ruling, launch, expected_sha1, disk>>

\* File::create(path): a new file, or the file that is there cut to nothing
DownloadCreate(d) ==
    /\ download[d].pc = "create"
    /\ disk' = IF exists(disk)
               THEN [disk EXCEPT !.chunks = {}]
               ELSE [inode |-> disk.made + 1, chunks |-> {}, made |-> disk.made + 1]
    /\ download' = [download EXCEPT ![d] =
                      [@ EXCEPT !.pc = "write", !.handle = disk'.inode]]
    /\ UNCHANGED <<supervisor, services, ruling, launch, expected_sha1>>

\* file.write_all(&bytes): one write call, at the position of this handle; a
\* file that was removed is written to without being at the path any more
DownloadWrite(d) ==
    /\ download[d].pc = "write"
    /\ LET k == download[d].position + 1 IN
         /\ disk' = IF download[d].handle = disk.inode
                    THEN [disk EXCEPT !.chunks =
                            IF download[d].body = "artifact"
                            THEN @ \cup {k} ELSE @ \ {k}]
                    ELSE disk
         /\ download' = [download EXCEPT ![d] =
                           IF k < MaxChunks
                           THEN [@ EXCEPT !.position = k]
                           ELSE IF download[d].via = "download_file"
                           THEN [@ EXCEPT !.position = k, !.pc = "verify"]
                           ELSE ReturnedAfter(@, "Ok")]
    /\ UNCHANGED <<supervisor, services, ruling, launch, expected_sha1>>

\* the hash of what is at the path is compared with the expected one
DownloadVerify(d) ==
    /\ download[d].pc = "verify"
    /\ LET bad == /\ expected_sha1 # {} /\ expected_sha1 # {""}
                  /\ ~verify_sha1(disk, CHOOSE h \in expected_sha1 : TRUE)
       IN download' = [download EXCEPT ![d] =
                         IF bad THEN [@ EXCEPT !.pc = "remove"]
                         ELSE ReturnedAfter(@, "Ok")]
    /\ UNCHANGED <<supervisor, services, ruling, launch, expected_sha1, disk>>

\* fs::remove_file(path)?, then Err("SHA1 verification failed")
DownloadRemove(d) ==
    /\ download[d].pc = "remove"
    /\ disk' = [disk EXCEPT !.inode = 0, !.chunks = {}]
    /\ download' = [download EXCEPT ![d] =
                      ReturnedAfter(@, IF exists(disk) THEN "Err(sha1)" ELSE "Err(io)")]
    /\ UNCHANGED <<supervisor, services, ruling, launch, expected_sha1>>

\* fabric::download_library_with_sha1 is called: the file is kept when it is
\* there and no hash is given or its hash is the one given
LibraryCheck(d) ==
    /\ download[d].pc = "idle"
    /\ LET keep == /\ exists(disk)
                   /\ \/ expected_sha1 = {}
                      \/ /\ expected_sha1 # {""}
                         /\ verify_sha1(disk, CHOOSE h \in expected_sha1 : TRUE)
       IN download' = [download EXCEPT ![d] =
                         IF keep THEN Returned("Ok")
                         ELSE [@ EXCEPT !.pc = "get",
                                        !.via = "download_library_with_sha1"]]
    /\ UNCHANGED <<supervisor, services, ruling, launch, expected_sha1, disk>>

\* its GET request; the hash of the bytes received is compared with the
\* expected one before anything is written
LibraryGet(d, response) ==
    /\ download[d].pc = "get"
    /\ download[d].via = "download_library_with_sha1"
    /\ download' = [download EXCEPT ![d] =
                      IF response = "error" THEN ReturnedAfter(@, "Err(http)")
                      ELSE IF expected_sha1 # {} /\
                              (expected_sha1 = {""} \/ response # "artifact")
                      THEN ReturnedAfter([@ EXCEPT !.body = response], "Err(sha1)")
                      ELSE [@ EXCEPT !.pc = "create", !.body = response]]
    /\ UNCHANGED <<supervisor, services, ruling, launch, expected_sha1, disk>>

NextDownload ==
    \/ \E d \in Downloads : DownloadCheck(d)
    \/ \E d \in Downloads, response \in Responses : DownloadGet(d, response)
    \/ \E d \in Downloads : DownloadCreate(d)
    \/ \E d \in Downloads : DownloadWrite(d)
    \/ \E d \in Downloads : DownloadVerify(d)
    \/ \E d \in Downloads : DownloadRemove(d)

\* no other download is running
Alone(d) == \A e \in Downloads \ {d} : download[e].pc \in {"idle", "done"}

\* downloads of one artifact, by either function, one after the other
NextDownloadAlone ==
    \/ \E d \in Downloads : Alone(d) /\ DownloadCheck(d)
    \/ \E d \in Downloads : Alone(d) /\ LibraryCheck(d)
    \/ \E d \in Downloads, response \in Responses : DownloadGet(d, response)
    \/ \E d \in Downloads, response \in Responses : LibraryGet(d, response)
    \/ \E d \in Downloads : DownloadCreate(d)
    \/ \E d \in Downloads : DownloadWrite(d)
    \/ \E d \in Downloads : DownloadVerify(d)
    \/ \E d \in Downloads : DownloadRemove(d)

(* ------------------------------ launch_game --------------------------- *)

\* maven names, split at ':'
Asm96 == <<"org.ow2.asm", "asm", "9.6">>
Asm92 == <<"org.ow2.asm", "asm", "9.2">>
Lwjgl == <<"org.lwjgl", "lwjgl", "3.3.3">>
LwjglNatives == <<"org.lwjgl", "lwjgl", "3.3.3", "natives-linux">>

\* a rule list that excludes on this host
OtherOsOnly == {<<[action |-> "allow", os |-> {"windows"}, features |-> EmptyMap]>>}

\* versions::Library: name, rules, and whether `natives` names this host
Libraries ==
    {[name |-> Asm96, rules |-> {}, natives |-> FALSE],
     [name |-> Asm92, rules |-> {}, natives |-> FALSE],
     [name |-> Asm92, rules |-> OtherOsOnly, natives |-> FALSE],
     [name |-> Lwjgl, rules |-> {}, natives |-> TRUE],
     [name |-> LwjglNatives, rules |-> {}, natives |-> FALSE]}

LibraryLists == UNION {[1..n -> Libraries] : n \in 0..MaxLibs}

\* Option<Arguments> of the loader's descriptor
LoaderArguments ==
    {{}, {[game |-> {<<"--launchTarget">>}, jvm |-> {<<"-Dloader">>}]},
         {[game |-> {<<"--launchTarget">>}, jvm |-> {}]}}

\* Option<Arguments> of the vanilla descriptor
VanillaArguments ==
    {{}, {[game |-> {<<"--username">>}, jvm |-> {<<"-cp">>}]},
         {[game |-> {<<"--username">>}, jvm |-> {}]}}

\* the version JSON a Forge or NeoForge installer wrote
LoaderDetails ==
    [id : {"forge"}, libraries : LibraryLists, arguments : LoaderArguments,
     minecraft_arguments : {{}, {"--tweakClass"}}]

\* the vanilla VersionDetails launch_game is given; a descriptor without
\* modern arguments carries the legacy ones
VanillaDetails ==
    {[id |-> "vanilla", libraries |-> l, arguments |-> a,
      minecraft_arguments |-> IF a = {} THEN {"--legacy"} ELSE {}] :
        l \in LibraryLists, a \in VanillaArguments}

\* get_lib_identity: group:artifact[:classifier]
get_lib_identity(name) ==
    IF Len(name) >= 4 THEN <<name[1], name[2], name[4]>>
    ELSE IF Len(name) >= 2 THEN <<name[1], name[2]>>
    ELSE name

\* versions::library_name_to_path: group/artifact/version/artifact-version[-classifier].jar
library_name_to_path(name) ==
    IF Len(name) < 3 THEN name
    ELSE <<name[1], name[2], name[3],
           IF Len(name) > 3 THEN <<name[2], name[3], name[4]>>
                            ELSE <<name[2], name[3]>>>>

\* versions_dir/<id>/<id>.jar
client_jar(id) == <<"versions", id, <<id>>>>

RECURSIVE combined_libs(_, _)
\* launch_game: every vanilla library whose identity is not yet in the
\* combined list is pushed onto it
combined_libs(combined, libraries) ==
    IF libraries = <<>>
    THEN combined
    ELSE LET lib == Head(libraries)
             identity == get_lib_identity(lib.name)
         IN combined_libs(
                IF \E k \in DOMAIN combined :
                       get_lib_identity(combined[k].name) = identity
                THEN combined
                ELSE Append(combined, lib),
                Tail(libraries))

\* extend with the loader's arguments put in front
extend_in_front(base, mod) == mod \o base

\* Vec::extend: base_game.extend(mod_game)
extend(base, mod) == base \o mod

\* launch_game: one of the two lists of `arguments` is merged
merge_list(base, mod) ==
    IF mod = {} THEN base
    ELSE IF base = {} THEN mod
    ELSE {extend(CHOOSE b \in base : TRUE, CHOOSE m \in mod : TRUE)}

\* launch_game: the loader's version JSON is laid over the vanilla descriptor
overlay(actual, details) ==
    LET legacy == details.minecraft_arguments # {}
        a1 == [actual EXCEPT
                 !.id = details.id,
                 !.minecraft_arguments = IF legacy THEN details.minecraft_arguments ELSE @,
                 !.arguments = IF legacy THEN {} ELSE @,
                 !.libraries = combined_libs(details.libraries, @)]
    IN  IF details.arguments = {}
        THEN a1
        ELSE LET mod_args == CHOOSE m \in details.arguments : TRUE
             IN [a1 EXCEPT
                   !.minecraft_arguments = {},
                   !.arguments =
                       IF a1.arguments = {}
                       THEN details.arguments
                       ELSE LET base_args == CHOOSE b \in a1.arguments : TRUE
                            IN {[game |-> merge_list(base_args.game, mod_args.game),
                                 jvm |-> merge_list(base_args.jvm, mod_args.jvm)]}]

\* fabric::get_fabric_classpath: the loader's libraries that are on disk
get_fabric_classpath(fabric_info, libraries_dir) ==
    LET on_disk(name) == library_name_to_path(name) \in libraries_dir
        present == SelectSeq(fabric_info, on_disk)
    IN [k \in DOMAIN present |->
           [name |-> present[k], path |-> library_name_to_path(present[k])]]

\* launch_game: the classpath elements of one library of the descriptor
library_elements(library, libraries_dir) ==
    LET main == library_name_to_path(library.name)
        native_name == library.name \o <<"natives-linux">>
        native == library_name_to_path(native_name)
    IN  IF ~should_use_library(library.rules)
        THEN <<>>
        ELSE (IF main \in libraries_dir
              THEN <<[name |-> library.name, path |-> main]>> ELSE <<>>)
             \o
             (IF library.natives /\ native \in libraries_dir
              THEN <<[name |-> native_name, path |-> native]>> ELSE <<>>)

RECURSIVE libraries_elements(_, _)
\* launch_game: the loop over actual_version_details.libraries
libraries_elements(libraries, libraries_dir) ==
    IF libraries = <<>>
    THEN <<>>
    ELSE library_elements(Head(libraries), libraries_dir)
         \o libraries_elements(Tail(libraries), libraries_dir)

RECURSIVE deduplicate_keeping_last(_, _, _)
\* the loop with a later element taking the place of an earlier one
deduplicate_keeping_last(elements, seen_identities, final_paths) ==
    IF elements = <<>>
    THEN final_paths
    ELSE LET e == Head(elements)
             identity == get_lib_identity(e.name)
             later == \E k \in DOMAIN Tail(elements) :
                         get_lib_identity(Tail(elements)[k].name) = identity
         IN  deduplicate_keeping_last(Tail(elements), seen_identities,
                 IF later THEN final_paths ELSE Append(final_paths, e.path))

RECURSIVE deduplicate(_, _, _)
\* launch_game: the loop over classpath_elements with seen_identities
deduplicate(elements, seen_identities, final_paths) ==
    IF elements = <<>>
    THEN final_paths
    ELSE LET e == Head(elements)
             identity == get_lib_identity(e.name)
         IN  IF identity \in seen_identities
             THEN deduplicate(Tail(elements), seen_identities, final_paths)
             ELSE deduplicate(Tail(elements), seen_identities \cup {identity},
                              Append(final_paths, e.path))

\* download_libraries: the files of the libraries that are used on this host
downloaded(libraries) ==
    UNION {{library_name_to_path(libraries[k].name)} \cup
           (IF libraries[k].natives
            THEN {library_name_to_path(libraries[k].name \o <<"natives-linux">>)}
            ELSE {}) :
             k \in {j \in DOMAIN libraries : should_use_library(libraries[j].rules)}}

\* the phases with the game spawned before the natives are extracted
after_phase_spawn_early(phase) ==
    CASE phase = "merge"     -> "client"
      [] phase = "client"    -> "libraries"
      [] phase = "libraries" -> "java"
      [] phase = "java"      -> "classpath"
      [] phase = "classpath" -> "spawn"
      [] phase = "spawn"     -> "extract"
      [] phase = "extract"   -> "done"

\* launch_game: the phase that follows each phase
after_phase(phase) ==
    CASE phase = "merge"     -> "client"
      [] phase = "client"    -> "libraries"
      [] phase = "libraries" -> "java"
      [] phase = "java"      -> "classpath"
      [] phase = "classpath" -> "extract"
      [] phase = "extract"   -> "spawn"
      [] phase = "spawn"     -> "done"

\* launch_game has not been called
NoDescriptors ==
    [mod_loader |-> "Vanilla", details |-> {}, fabric_info |-> <<>>,
     version_details |-> [id |-> "vanilla", libraries |-> <<>>, arguments |-> {},
                          minecraft_arguments |-> {}]]

NotLaunching ==
    [pc |-> "idle", done |-> <<>>, error |-> "", spawned |-> FALSE,
     actual_version_details |-> NoDescriptors.version_details,
     libraries_dir |-> {}, classpath_elements |-> <<>>, final_paths |-> <<>>]

LaunchingIdle ==
    /\ descriptors = NoDescriptors
    /\ launching = NotLaunching

\* launch_game is called for a vanilla instance, for a Fabric instance whose
\* libraries are on disk but perhaps for the first, or for a Forge instance
\* whose version JSON is there or is not
LaunchingInit ==
    /\ descriptors \in
          {[mod_loader |-> "Vanilla", details |-> {}, fabric_info |-> <<>>,
            version_details |-> v] : v \in VanillaDetails}
          \cup
          {[mod_loader |-> "Fabric", details |-> {}, fabric_info |-> f,
            version_details |-> v] :
               f \in [1..MaxLibs -> {Asm96, Asm92}], v \in VanillaDetails}
          \cup
          {[mod_loader |-> "Forge", details |-> d, fabric_info |-> <<>>,
            version_details |-> v] :
               d \in {{}} \cup {{x} : x \in LoaderDetails}, v \in VanillaDetails}
    /\ \E missing \in {{}, {1}} :
          launching =
            [NotLaunching EXCEPT
               !.pc = "merge",
               !.actual_version_details = descriptors.version_details,
               !.libraries_dir =
                   {library_name_to_path(descriptors.fabric_info[k]) :
                       k \in DOMAIN descriptors.fabric_info \ missing}]

\* the phase is over: on to the next one, or out with its error
Proceed(l, phase, ok) ==
    IF ok
    THEN [l EXCEPT !.pc = after_phase(phase), !.done = Append(@, phase)]
    ELSE [l EXCEPT !.pc = "failed", !.error = phase]

\* the version JSON of Forge or NeoForge, when there is one, is merged
PhaseMerge ==
    /\ launching.pc = "merge"
    /\ launching' =
          Proceed([launching EXCEPT
                     !.actual_version_details =
                         IF descriptors.mod_loader = "Forge" /\ descriptors.details # {}
                         THEN overlay(@, CHOOSE d \in descriptors.details : TRUE)
                         ELSE @],
                  "merge", TRUE)
    /\ UNCHANGED <<supervisor, services, ruling, downloading, descriptors>>

\* downloader::download_client
PhaseClient(ok) ==
    /\ launching.pc = "client"
    /\ launching' =
          Proceed([launching EXCEPT
                     !.libraries_dir =
                         IF ok THEN @ \cup {client_jar(launching.actual_version_details.id)}
                         ELSE @],
                  "client", ok)
    /\ UNCHANGED <<supervisor, services, ruling, downloading, descriptors>>

\* downloader::download_libraries
PhaseLibraries(ok) ==
    /\ launching.pc = "libraries"
    /\ launching' =
          Proceed([launching EXCEPT
                     !.libraries_dir =
                         IF ok THEN @ \cup downloaded(launching.actual_version_details.libraries)
                         ELSE @],
                  "libraries", ok)
    /\ UNCHANGED <<supervisor, services, ruling, downloading, descriptors>>

\* select_java_for_launch
PhaseJava(ok) ==
    /\ launching.pc = "java"
    /\ launching' = Proceed(launching, "java", ok)
    /\ UNCHANGED <<supervisor, services, ruling, downloading, descriptors>>

\* the classpath: Fabric's libraries, the libraries of the descriptor, the
\* deduplication, the client JAR
PhaseClasspath ==
    /\ launching.pc = "classpath"
    /\ LET d == launching.libraries_dir
           elements ==
               (IF descriptors.mod_loader = "Fabric"
                THEN get_fabric_classpath(descriptors.fabric_info, d) ELSE <<>>)
               \o libraries_elements(launching.actual_version_details.libraries, d)
       IN launching' =
            Proceed([launching EXCEPT
                       !.classpath_elements = elements,
                       !.final_paths =
                           Append(deduplicate(elements, {}, <<>>),
                                  client_jar(launching.actual_version_details.id))],
                    "classpath", TRUE)
    /\ UNCHANGED <<supervisor, services, ruling, downloading, descriptors>>

\* the game and natives directories are made and extract_natives runs
PhaseExtract(ok) ==
    /\ launching.pc = "extract"
    /\ launching' = Proceed(launching, "extract", ok)
    /\ UNCHANGED <<supervisor, services, ruling, downloading, descriptors>>

\* command.spawn()
PhaseSpawn(ok) ==
    /\ launching.pc = "spawn"
    /\ launching' = Proceed([launching EXCEPT !.spawned = ok], "spawn", ok)
    /\ UNCHANGED <<supervisor, services, ruling, downloading, descriptors>>

NextLaunchGame ==
    \/ PhaseMerge
    \/ \E ok \in BOOLEAN : PhaseClient(ok)
    \/ \E ok \in BOOLEAN : PhaseLibraries(ok)
    \/ \E ok \in BOOLEAN : PhaseJava(ok)
    \/ PhaseClasspath
    \/ \E ok \in BOOLEAN : PhaseExtract(ok)
    \/ \E ok \in BOOLEAN : PhaseSpawn(ok)

(* ------------------------------ Java locator -------------------------- *)

\* a path that names no file
NoSuchFile == [exists |-> FALSE, major |-> 0, readable |-> FALSE]

\* the Java binaries there may be: their major version, and whether the
\* first line of `java -version` can be parsed
Javas ==
    {[exists |-> TRUE, major |-> m, readable |-> TRUE] : m \in {8, 17, 21, 22}}
    \cup {[exists |-> TRUE, major |-> 17, readable |-> FALSE]}

\* Option<String> java_path of an instance or of the settings
JavaPaths == {{}} \cup {{j} : j \in Javas \cup {NoSuchFile}}

\* the children of /usr/lib/jvm: the Java of each, and whether its name
\* contains 1.8, java-8 or jdk8
JvmDirs ==
    UNION {[1..n -> [java : Javas, named8 : BOOLEAN]] : n \in 0..MaxJavas}

\* what the host has: JAVA_HOME/bin/java, the java of PATH, /usr/lib/jvm
Hosts == [JAVA_HOME : {{}} \cup {{j} : j \in Javas},
          which : {{}} \cup {{j} : j \in Javas},
          usr_lib_jvm : JvmDirs]

LegacyMainClass == "net.minecraft.launchwrapper.Launch"

\* get_java_major: the major version `java -version` reports
get_java_major(path) ==
    IF path.exists /\ path.readable THEN {path.major} ELSE {}

\* the first element of a sequence that passes the test, as an Option
FirstThat(seq, Test(_)) ==
    LET passing == SelectSeq(seq, Test)
    IN IF passing = <<>> THEN {} ELSE {Head(passing)}

\* find_java: JAVA_HOME, then PATH, then the first child of /usr/lib/jvm
find_java(host) ==
    IF host.JAVA_HOME # {} THEN host.JAVA_HOME
    ELSE IF host.which # {} THEN host.which
    ELSE IF host.usr_lib_jvm # <<>> THEN {host.usr_lib_jvm[1].java}
    ELSE {}

\* find_java8: JAVA_HOME, then the children of /usr/lib/jvm named after Java 8
find_java8(host) ==
    LET at_most_8(j) == get_java_major(j) # {} /\ j.major <= 8
        named(d) == d.named8 /\ at_most_8(d.java)
        child == FirstThat(host.usr_lib_jvm, named)
    IN  IF host.JAVA_HOME # {} /\ at_most_8(CHOOSE j \in host.JAVA_HOME : TRUE)
        THEN host.JAVA_HOME
        ELSE {d.java : d \in child}

\* the candidates of find_java_by_version: JAVA_HOME and the children of
\* /usr/lib/jvm whose version is known
java_candidates(host) ==
    LET known(j) == get_java_major(j) # {}
    IN SelectSeq(IF host.JAVA_HOME # {}
                 THEN <<CHOOSE j \in host.JAVA_HOME : TRUE>> ELSE <<>>, known)
       \o SelectSeq([k \in DOMAIN host.usr_lib_jvm |-> host.usr_lib_jvm[k].java],
                    known)

\* find_java_by_version: the first exact match, else the first newer one
find_java_by_version(host, required_major) ==
    LET exact(j) == j.major = required_major
        newer(j) == j.major >= required_major
    IN  IF FirstThat(java_candidates(host), exact) # {}
        THEN FirstThat(java_candidates(host), exact)
        ELSE FirstThat(java_candidates(host), newer)

Ok(java) == [ok |-> TRUE, java |-> java, error |-> ""]
Err(message) == [ok |-> FALSE, java |-> NoSuchFile, error |-> message]

\* select_java_for_launch, the part for a descriptor with java_version
select_required(required_major, settings_java, host) ==
    LET settings_ok ==
            /\ settings_java # {}
            /\ \E j \in settings_java :
                  j.exists /\ get_java_major(j) # {} /\ j.major >= required_major
        found == find_java_by_version(host, required_major)
        any == find_java(host)
    IN  IF settings_ok THEN Ok(CHOOSE j \in settings_java : TRUE)
        ELSE IF found # {} THEN Ok(CHOOSE j \in found : TRUE)
        ELSE IF any # {}
        THEN LET java_path == CHOOSE j \in any : TRUE
             IN IF get_java_major(java_path) # {} /\ java_path.major < required_major
                THEN Err("requires Java or newer")
                ELSE Ok(java_path)
        ELSE Err("Java not found")

\* select_java_for_launch, the part for a descriptor without java_version
select_legacy(main_class, settings_java, host) ==
    LET requested == IF settings_java # {} THEN settings_java ELSE find_java(host)
    IN  IF requested = {} THEN Err("Java not found")
        ELSE LET r == CHOOSE j \in requested : TRUE
             IN IF /\ main_class = LegacyMainClass
                   /\ get_java_major(r) # {}
                   /\ r.major > 8
                THEN IF find_java8(host) # {}
                     THEN Ok(CHOOSE j \in find_java8(host) : TRUE)
                     ELSE Err("require Java 8")
                ELSE Ok(r)

select_java_for_launch(instance_java_path, java_version, main_class, settings_java, host) ==
    IF instance_java_path # {} /\ (CHOOSE j \in instance_java_path : TRUE).exists
    THEN Ok(CHOOSE j \in instance_java_path : TRUE)
    ELSE IF java_version # {}
    THEN select_required(CHOOSE n \in java_version : TRUE, settings_java, host)
    ELSE select_legacy(main_class, settings_java, host)

NotSelecting ==
    [pc |-> "idle", java_path |-> {}, java_version |-> {}, main_class |-> "",
     settings |-> {}, host |-> [JAVA_HOME |-> {}, which |-> {}, usr_lib_jvm |-> <<>>],
     result |-> Err("")]

SelectingIdle == selecting = NotSelecting

\* select_java_for_launch is called: an instance, a descriptor, the settings
\* and a host
SelectingInit ==
    selecting \in
        [pc : {"call"}, java_path : JavaPaths, java_version : {{}, {21}},
         main_class : {LegacyMainClass, "net.minecraft.client.main.Main"},
         settings : JavaPaths, host : Hosts, result : {Err("")}]

SelectJava ==
    /\ selecting.pc = "call"
    /\ selecting' =
          [selecting EXCEPT
             !.pc = "done",
             !.result = select_java_for_launch(selecting.java_path,
                            selecting.java_version, selecting.main_class,
                            selecting.settings, selecting.host)]
    /\ UNCHANGED <<supervisor, ruling, downloading, launch,
                   versioning, login, store, installer, http>>

(* ---------------------------- download_version ------------------------ *)

\* Option<Downloads> of a descriptor: the sha1 of downloads.client
ClientDownloads == {{}, {[sha1 |-> ""]}, {[sha1 |-> "sha1"]}}

\* what may be at versions/<id>/<id>.jar: nothing, the client JAR (whose
\* hash is "sha1"), or other bytes
JarStates == {"absent", "artifact", "other"}

\* download_file run on its own, with the file kept for being there
download_file_keeps_any(file, expected_sha1_, response) ==
    IF file # "absent"
    THEN [file |-> file, ok |-> TRUE]
    ELSE IF response = "error" THEN [file |-> file, ok |-> FALSE]
    ELSE IF expected_sha1_ # "" /\ response # "artifact"
    THEN [file |-> "absent", ok |-> FALSE]
    ELSE [file |-> response, ok |-> TRUE]

\* download_file run on its own: the file it leaves and what it returns
download_file(file, expected_sha1_, response) ==
    IF IF expected_sha1_ # "" THEN file = "artifact" ELSE file # "absent"
    THEN [file |-> file, ok |-> TRUE]
    ELSE IF response = "error" THEN [file |-> file, ok |-> FALSE]
    ELSE IF expected_sha1_ # "" /\ response # "artifact"
    THEN [file |-> "absent", ok |-> FALSE]
    ELSE [file |-> response, ok |-> TRUE]

NotVersioning ==
    [pc |-> "idle", downloads |-> {}, jar |-> "absent", json |-> FALSE,
     error |-> ""]

VersioningIdle == versioning = NotVersioning

\* download_version is called; the JAR and the JSON of the version may be
\* there from an earlier call
VersioningInit ==
    versioning \in
        [pc : {"manifest"}, downloads : ClientDownloads, jar : JarStates,
         json : BOOLEAN, error : {""}]

\* a step of download_version returned an error
Failed(v, step) == [v EXCEPT !.pc = "failed", !.error = step]

\* versions::fetch_version_manifest, and the version looked up in it
VersionManifest(found) ==
    /\ versioning.pc = "manifest"
    /\ versioning' = IF found THEN [versioning EXCEPT !.pc = "details"]
                     ELSE Failed(versioning, "manifest")
    /\ UNCHANGED <<supervisor, ruling, downloading, launch,
                   selecting, login, store, installer, http>>

\* versions::fetch_version_details
VersionDetails(ok) ==
    /\ versioning.pc = "details"
    /\ versioning' = IF ok THEN [versioning EXCEPT !.pc = "client"]
                     ELSE Failed(versioning, "details")
    /\ UNCHANGED <<supervisor, ruling, downloading, launch,
                   selecting, login, store, installer, http>>

\* download_client: the JAR is downloaded when the descriptor has downloads
VersionClient(response) ==
    /\ versioning.pc = "client"
    /\ IF versioning.downloads = {}
       THEN versioning' = [versioning EXCEPT !.pc = "json"]
       ELSE LET info == CHOOSE d \in versioning.downloads : TRUE
                done == download_file(versioning.jar, info.sha1, response)
            IN versioning' =
                 IF done.ok
                 THEN [versioning EXCEPT !.pc = "json", !.jar = done.file]
                 ELSE Failed([versioning EXCEPT !.jar = done.file], "client")
    /\ UNCHANGED <<supervisor, ruling, downloading, launch,
                   selecting, login, store, installer, http>>

\* download_client: the version JSON is written next to the JAR
VersionJson(ok) ==
    /\ versioning.pc = "json"
    /\ versioning' = IF ok THEN [versioning EXCEPT !.pc = "libraries", !.json = TRUE]
                     ELSE Failed(versioning, "json")
    /\ UNCHANGED <<supervisor, ruling, downloading, launch,
                   selecting, login, store, installer, http>>

\* download_libraries
VersionLibraries(ok) ==
    /\ versioning.pc = "libraries"
    /\ versioning' = IF ok THEN [versioning EXCEPT !.pc = "assets"]
                     ELSE Failed(versioning, "libraries")
    /\ UNCHANGED <<supervisor, ruling, downloading, launch,
                   selecting, login, store, installer, http>>

\* download_assets, and Ok(version_details)
VersionAssets(ok) ==
    /\ versioning.pc = "assets"
    /\ versioning' = IF ok THEN [versioning EXCEPT !.pc = "done"]
                     ELSE Failed(versioning, "assets")
    /\ UNCHANGED <<supervisor, ruling, downloading, launch,
                   selecting, login, store, installer, http>>

NextVersion ==
    \/ \E found \in BOOLEAN : VersionManifest(found)
    \/ \E ok \in BOOLEAN : VersionDetails(ok)
    \/ \E response \in Responses : VersionClient(response)
    \/ \E ok \in BOOLEAN : VersionJson(ok)
    \/ \E ok \in BOOLEAN : VersionLibraries(ok)
    \/ \E ok \in BOOLEAN : VersionAssets(ok)

(* ------------------------------ account store ------------------------- *)

\* the Minecraft profile of the one Microsoft account: its uuid, and the
\* names it may have (a profile can be renamed)
ProfileUuid == "u1"
ProfileNames == {"Alice", "Alicia"}

\* the names an offline user may be given
OfflineNames == {"Alice", "Steve"}

Usernames == ProfileNames \cup OfflineNames

\* AccountsData::default()
NoAccounts == [accounts |-> <<>>, active_account |-> {}]

\* the index of the first element that passes the test, 0 when there is none
position(seq, Test(_)) ==
    IF \E k \in DOMAIN seq : Test(seq[k])
    THEN CHOOSE k \in DOMAIN seq :
            Test(seq[k]) /\ \A j \in 1..(k - 1) : ~Test(seq[j])
    ELSE 0

\* add_account with the new account made the active one in every case
add_account_activates(data, account) ==
    LET same(a) == IF account.is_microsoft
                   THEN a.uuid = account.uuid /\ a.is_microsoft
                   ELSE a.username = account.username /\ ~a.is_microsoft
        idx == position(data.accounts, same)
        accounts == IF idx # 0
                    THEN [data.accounts EXCEPT ![idx] = account]
                    ELSE Append(data.accounts, account)
    IN [accounts |-> accounts, active_account |-> {account.username}]

\* auth::add_account: the account takes the place of the one with its uuid
\* (Microsoft) or its username (offline), or is appended
add_account(data, account) ==
    LET same(a) == IF account.is_microsoft
                   THEN a.uuid = account.uuid /\ a.is_microsoft
                   ELSE a.username = account.username /\ ~a.is_microsoft
        idx == position(data.accounts, same)
        accounts == IF idx # 0
                    THEN [data.accounts EXCEPT ![idx] = account]
                    ELSE Append(data.accounts, account)
    IN [accounts |-> accounts,
        active_account |->
            IF Len(accounts) = 1 \/ data.active_account = {}
            THEN {account.username}
            ELSE data.active_account]

\* auth::remove_account
remove_account(data, username) ==
    LET other(a) == a.username # username
        accounts == SelectSeq(data.accounts, other)
    IN [accounts |-> accounts,
        active_account |->
            IF data.active_account = {username}
            THEN IF accounts = <<>> THEN {} ELSE {accounts[1].username}
            ELSE data.active_account]

\* auth::set_active_account: Err("Account not found") leaves the file alone
set_active_account(data, username) ==
    IF \E k \in DOMAIN data.accounts : data.accounts[k].username = username
    THEN [data EXCEPT !.active_account = {username}]
    ELSE data

\* auth::complete_authentication: the account of the profile, as it is named
\* now, with a new access token
complete_authentication(s, refresh_token) ==
    [username |-> s.profile_name, uuid |-> ProfileUuid,
     access_token |-> s.issued + 1, refresh_token |-> refresh_token,
     is_microsoft |-> TRUE]

\* what a command did: for the claims
Did_(op, username, ok) == [op |-> op, username |-> username, ok |-> ok]

NoStore ==
    [data |-> NoAccounts, state_username |-> "Player", profile_name |-> "Alice",
     issued |-> 0, commands |-> 0, last |-> Did_("", "", FALSE)]

StoreIdle == store = NoStore

\* a command on the store is served
Served(s, op, username, ok) ==
    [s EXCEPT !.commands = @ + 1, !.last = Did_(op, username, ok)]

\* the part of poll_microsoft_login after the token has arrived
authenticated(s, refresh_token) ==
    LET account == complete_authentication(s, refresh_token)
    IN [s EXCEPT
          !.issued = @ + 1,
          !.state_username = account.username,
          !.data = set_active_account(add_account(@, account), account.username)]

\* the user gives the profile another name
Rename ==
    /\ store.profile_name = "Alice"
    /\ store.commands > 0
    /\ store' = [store EXCEPT !.profile_name = "Alicia"]
    /\ UNCHANGED <<supervisor, ruling, downloading, launch,
                   selecting, versioning, login, installer, http>>

\* poll_microsoft_login with a token in the response: the account is saved
\* and made the active one
MicrosoftLogin(refresh_token, auth_ok) ==
    /\ store.commands < MaxCommands
    /\ store' = IF auth_ok
                THEN Served(authenticated(store, refresh_token),
                            "poll_microsoft_login", store.profile_name, TRUE)
                ELSE Served(store, "poll_microsoft_login", store.profile_name, FALSE)
    /\ UNCHANGED <<supervisor, ruling, downloading, launch,
                   selecting, versioning, login, installer, http>>

\* set_offline_user
SetOfflineUser(username) ==
    /\ store.commands < MaxCommands
    /\ LET saved == [username |-> username, uuid |-> <<"offline", store.commands>>,
                     access_token |-> 0, refresh_token |-> {},
                     is_microsoft |-> FALSE]
       IN store' =
            Served([store EXCEPT
                      !.state_username = username,
                      !.data = set_active_account(add_account(@, saved), username)],
                   "set_offline_user", username, TRUE)
    /\ UNCHANGED <<supervisor, ruling, downloading, launch,
                   selecting, versioning, login, installer, http>>

\* remove_saved_account
RemoveSavedAccount(username) ==
    /\ store.commands < MaxCommands
    /\ store' = Served([store EXCEPT !.data = remove_account(@, username)],
                       "remove_saved_account", username, TRUE)
    /\ UNCHANGED <<supervisor, ruling, downloading, launch,
                   selecting, versioning, login, installer, http>>

\* switch_account
SwitchAccount(username) ==
    /\ store.commands < MaxCommands
    /\ LET found == \E k \in DOMAIN store.data.accounts :
                        store.data.accounts[k].username = username
       IN store' =
            IF found
            THEN Served([store EXCEPT
                           !.state_username = username,
                           !.data = set_active_account(@, username)],
                        "switch_account", username, TRUE)
            ELSE Served(store, "switch_account", username, FALSE)
    /\ UNCHANGED <<supervisor, ruling, downloading, launch,
                   selecting, versioning, login, installer, http>>

\* refresh_account: the first account of that name; an offline account is
\* left as it is, a Microsoft account is authenticated again and saved
RefreshAccount(username, ok) ==
    /\ store.commands < MaxCommands
    /\ LET named(a) == a.username = username
           idx == position(store.data.accounts, named)
       IN store' =
            IF idx = 0
            THEN Served(store, "refresh_account", username, FALSE)
            ELSE LET account == store.data.accounts[idx]
                     new_account ==
                         complete_authentication(store, account.refresh_token)
                 IN IF ~account.is_microsoft
                    THEN Served(store, "refresh_account", username, TRUE)
                    ELSE IF account.refresh_token = {} \/ ~ok
                    THEN Served(store, "refresh_account", username, FALSE)
                    ELSE Served([store EXCEPT
                                   !.issued = @ + 1,
                                   !.data = add_account(@, new_account),
                                   !.state_username =
                                       IF @ = username THEN new_account.username
                                       ELSE @],
                                "refresh_account", username, TRUE)
    /\ UNCHANGED <<supervisor, ruling, downloading, launch,
                   selecting, versioning, login, installer, http>>

NextAccounts ==
    \/ Rename
    \/ \E refresh_token \in {{}, {"r"}}, auth_ok \in BOOLEAN :
          MicrosoftLogin(refresh_token, auth_ok)
    \/ \E username \in OfflineNames : SetOfflineUser(username)
    \/ \E username \in Usernames : RemoveSavedAccount(username)
    \/ \E username \in Usernames : SwitchAccount(username)
    \/ \E username \in Usernames, ok \in BOOLEAN : RefreshAccount(username, ok)

(* --------------------------- device-code login ------------------------ *)

\* the error codes of the token endpoint that mean "ask again"
SoftErrors == {"authorization_pending", "slow_down"}

\* the error codes that end the flow
HardErrors == {"expired_token", "access_denied"}

\* an answer of login.live.com/oauth20_token.srf: whether it arrived and
\* could be parsed, whether its status is a success, its error field and
\* whether it carries an access token
Answer(sent, parsed, success, error, access_token) ==
    [sent |-> sent, parsed |-> parsed, success |-> success, error |-> error,
     access_token |-> access_token]

TokenResponses ==
    {Answer(FALSE, FALSE, FALSE, {}, FALSE),
     Answer(TRUE, FALSE, TRUE, {}, FALSE),
     Answer(TRUE, TRUE, FALSE, {}, FALSE),
     Answer(TRUE, TRUE, TRUE, {}, FALSE),
     Answer(TRUE, TRUE, TRUE, {}, TRUE)}
    \cup {Answer(TRUE, TRUE, FALSE, {error}, FALSE) :
             error \in SoftErrors \cup HardErrors}

\* what a command of the login flow returns
Returns(ok, value) == [ok |-> ok, value |-> value]

\* poll_for_token with the status looked at before the error field
poll_for_token_status_first(response) ==
    IF ~response.sent THEN Returns(FALSE, "request failed")
    ELSE IF ~response.parsed THEN Returns(FALSE, "Failed to parse token response")
    ELSE IF ~response.success
    THEN Returns(FALSE, "Microsoft token request failed")
    ELSE IF response.error # {}
    THEN Returns(FALSE, CHOOSE error \in response.error : TRUE)
    ELSE IF ~response.access_token
    THEN Returns(FALSE, "Microsoft token response missing access token")
    ELSE Returns(TRUE, "token")

\* auth::poll_for_token: one request; an error field of the answer is
\* returned as the error, whatever the status
poll_for_token(response) ==
    IF ~response.sent THEN Returns(FALSE, "request failed")
    ELSE IF ~response.parsed THEN Returns(FALSE, "Failed to parse token response")
    ELSE IF response.error # {}
    THEN Returns(FALSE, CHOOSE error \in response.error : TRUE)
    ELSE IF ~response.success
    THEN Returns(FALSE, "Microsoft token request failed")
    ELSE IF ~response.access_token
    THEN Returns(FALSE, "Microsoft token response missing access token")
    ELSE Returns(TRUE, "token")

\* the command poll_microsoft_login: one poll; with a token the account is
\* authenticated, saved and made the active one
poll_microsoft_login(s, response, refresh_token, auth_ok) ==
    LET token_response == poll_for_token(response)
    IN IF ~token_response.ok
       THEN [store |-> Served(s, "poll_microsoft_login", s.profile_name, FALSE),
             result |-> token_response]
       ELSE IF ~auth_ok
       THEN [store |-> Served(s, "poll_microsoft_login", s.profile_name, FALSE),
             result |-> Returns(FALSE, "authentication failed")]
       ELSE [store |-> Served(authenticated(s, refresh_token),
                              "poll_microsoft_login", s.profile_name, TRUE),
             result |-> Returns(TRUE, s.profile_name)]

\* DeviceCodeInfo.interval: what the server said, 5 by default
Intervals == {1, 5}

NoLogin ==
    [pc |-> "idle", interval |-> 0, polls |-> 0,
     response |-> Answer(FALSE, FALSE, FALSE, {}, FALSE),
     result |-> Returns(FALSE, "")]

LoginIdle == login = NoLogin

\* start_microsoft_login: the device code and the interval, or an error
StartMicrosoftLogin(ok, interval) ==
    /\ login.pc \in {"idle", "done"}
    /\ login.polls < MaxPolls
    /\ login' = IF ok
                THEN [login EXCEPT !.pc = "wait", !.interval = interval]
                ELSE [login EXCEPT !.pc = "done",
                                   !.result = Returns(FALSE, "device code")]
    /\ UNCHANGED <<supervisor, ruling, downloading, launch,
                   selecting, versioning, store, installer, http>>

\* the interval has passed: the flow calls poll_microsoft_login
LoginPoll(response, refresh_token, auth_ok) ==
    /\ login.pc = "wait"
    /\ login.polls < MaxPolls
    /\ LET polled == poll_microsoft_login(store, response, refresh_token, auth_ok)
       IN /\ store' = polled.store
          /\ login' = [login EXCEPT !.pc = "returned", !.polls = @ + 1,
                                    !.response = response,
                                    !.result = polled.result]
    /\ UNCHANGED <<supervisor, ruling, downloading, launch,
                   selecting, versioning, installer, http>>

\* the flow looks at what the command returned: a soft error means another
\* poll (after twice the interval for slow_down), anything else ends the flow
LoginDecide ==
    /\ login.pc = "returned"
    /\ login' =
          IF ~login.result.ok /\ login.result.value \in SoftErrors
          THEN [login EXCEPT
                  !.pc = "wait",
                  !.interval = IF login.result.value = "slow_down"
                               THEN 2 * @ ELSE @]
          ELSE [login EXCEPT !.pc = "done"]
    /\ UNCHANGED <<supervisor, ruling, downloading, launch,
                   selecting, versioning, store, installer, http>>

NextLogin ==
    \/ \E ok \in BOOLEAN, interval \in Intervals : StartMicrosoftLogin(ok, interval)
    \/ \E response \in TokenResponses, refresh_token \in {{}, {"r"}},
          auth_ok \in BOOLEAN :
          LoginPoll(response, refresh_token, auth_ok)
    \/ LoginDecide

(* -------------------------- Forge and NeoForge ------------------------ *)

Loaders == {"forge", "neoforge"}

\* what an installer JAR may hold: install_profile.json, its sections
\* "install" and "versionInfo", the keys filePath and path of "install", and
\* the universal JAR that filePath names
InstallerParts == {"profile", "install", "versionInfo", "filePath", "universal"}

\* the installers of legacy Forge carry a profile with both sections; later
\* installers have neither
LegacyParts == {"profile", "install", "versionInfo"}

\* how the installer process may end: its exit status, or no status at all
Exits == {"success", "failure", "timeout", "not started"}

\* handle_legacy_forge_installer that takes the sections it does not find as
\* empty
handle_legacy_forge_installer_any_profile(parts) ==
    IF "profile" \notin parts
    THEN [ok |-> FALSE, written |-> {}]
    ELSE IF ~({"filePath", "universal"} \subseteq parts)
    THEN [ok |-> FALSE, written |-> {"version json"}]
    ELSE [ok |-> TRUE, written |-> {"version json", "forge library"}]

\* forge::handle_legacy_forge_installer: the files it writes and whether it
\* returns the version id
handle_legacy_forge_installer(parts) ==
    IF ~(LegacyParts \subseteq parts)
    THEN [ok |-> FALSE, written |-> {}]
    ELSE IF ~({"filePath", "universal"} \subseteq parts)
    THEN [ok |-> FALSE, written |-> {"version json"}]
    ELSE [ok |-> TRUE, written |-> {"version json", "forge library"}]

NoInstaller ==
    [pc |-> "idle", loader |-> "", parts |-> {}, exit |-> "", files |-> {},
     version_id |-> {}, ok |-> FALSE]

InstallerIdle == installer = NoInstaller

\* install_forge or install_neoforge is called, with the installer JAR that
\* the vendor serves and the store with or without launcher_profiles.json
InstallerInit ==
    \E loader \in Loaders, parts \in SUBSET InstallerParts,
       files \in SUBSET {"launcher_profiles.json"} :
       installer = [NoInstaller EXCEPT !.pc = "download", !.loader = loader,
                                       !.parts = parts, !.files = files]

\* the installation returns an error
InstallerFailed(i) == [i EXCEPT !.pc = "returned", !.ok = FALSE]

\* the installer JAR is fetched to the temp path
InstallerDownload(ok) ==
    /\ installer.pc = "download"
    /\ installer' = IF ok
                    THEN [installer EXCEPT !.pc = "java",
                                           !.files = @ \cup {"installer"}]
                    ELSE InstallerFailed(installer)
    /\ UNCHANGED <<supervisor, ruling, downloading, launch,
                   selecting, versioning, login, store, http>>

\* find_java, then launcher_profiles.json is made sure of
InstallerFindJava(found) ==
    /\ installer.pc = "java"
    /\ installer' = IF found
                    THEN [installer EXCEPT
                            !.pc = "run",
                            !.files = @ \cup {"launcher_profiles.json"}]
                    ELSE InstallerFailed(installer)
    /\ UNCHANGED <<supervisor, ruling, downloading, launch,
                   selecting, versioning, login, store, http>>

\* java -jar <installer> --installClient <store>, for at most 600 s
InstallerRun(exit) ==
    /\ installer.pc = "run"
    /\ installer' =
          IF exit = "success"
          THEN [installer EXCEPT !.pc = "save", !.exit = exit,
                                 !.files = @ \ {"installer"}]
          ELSE IF exit = "failure" /\ installer.loader = "forge"
          THEN [installer EXCEPT !.pc = "extract", !.exit = exit]
          ELSE [InstallerFailed(installer) EXCEPT !.exit = exit]
    /\ UNCHANGED <<supervisor, ruling, downloading, launch,
                   selecting, versioning, login, store, http>>

\* install_forge after a failed installer: manual extraction
InstallerExtract ==
    /\ installer.pc = "extract"
    /\ LET extracted == handle_legacy_forge_installer(installer.parts)
       IN installer' =
            IF extracted.ok
            THEN [installer EXCEPT !.pc = "save",
                                   !.files = @ \cup extracted.written,
                                   !.version_id = {"versionInfo.id"}]
            ELSE [InstallerFailed(installer) EXCEPT
                    !.files = @ \cup extracted.written]
    /\ UNCHANGED <<supervisor, ruling, downloading, launch,
                   selecting, versioning, login, store, http>>

\* forge.json or neoforge.json is written to the instance; after manual
\* extraction the installer JAR is removed only now
InstallerSave(ok) ==
    /\ installer.pc = "save"
    /\ installer' =
          IF ok
          THEN [installer EXCEPT
                  !.pc = "returned", !.ok = TRUE,
                  !.files = (@ \ {"installer"})
                            \cup {IF installer.loader = "forge"
                                  THEN "forge.json" ELSE "neoforge.json"}]
          ELSE InstallerFailed(installer)
    /\ UNCHANGED <<supervisor, ruling, downloading, launch,
                   selecting, versioning, login, store, http>>

NextInstaller ==
    \/ \E ok \in BOOLEAN : InstallerDownload(ok)
    \/ \E found \in BOOLEAN : InstallerFindJava(found)
    \/ \E exit \in Exits : InstallerRun(exit)
    \/ InstallerExtract
    \/ \E ok \in BOOLEAN : InstallerSave(ok)

(* ----------------------- Modrinth and CurseForge ---------------------- *)

\* Semaphore::new(10) of MODRINTH_SEMAPHORE
ModrinthPermits == 10

\* for_each_concurrent(15, ..) of modrinth::install_modpack
ModrinthLanes == 15

\* for_each_concurrent(12, ..) of curseforge::install_modpack
CurseForgeLanes == 12

\* per site: the files a running modpack install has still to fetch, its
\* lanes that wait for a permit and those with a request in flight, and the
\* other commands that wait and that have a request in flight
NoHttp ==
    [modrinth |-> [entries |-> 0, waiting |-> 0, in_flight |-> 0,
                   commands_waiting |-> 0, commands_in_flight |-> 0],
     curseforge |-> [entries |-> 0, in_flight |-> 0, commands_in_flight |-> 0]]

HttpIdle == http = NoHttp

\* the permits of MODRINTH_SEMAPHORE that are taken
PermitsTaken == http.modrinth.in_flight + http.modrinth.commands_in_flight

\* modrinth::install_modpack comes to the download of the files of its index
ModrinthInstall(files) ==
    /\ http.modrinth.entries + http.modrinth.waiting + http.modrinth.in_flight = 0
    /\ http' = [http EXCEPT !.modrinth.entries = files]
    /\ UNCHANGED <<supervisor, ruling, downloading, launch,
                   selecting, versioning, login, store, installer>>

\* a lane of the install takes the next file and asks for a permit
ModrinthLane ==
    /\ http.modrinth.entries > 0
    /\ http.modrinth.waiting + http.modrinth.in_flight < ModrinthLanes
    /\ http' = [http EXCEPT !.modrinth.entries = @ - 1,
                            !.modrinth.waiting = @ + 1]
    /\ UNCHANGED <<supervisor, ruling, downloading, launch,
                   selecting, versioning, login, store, installer>>

\* MODRINTH_SEMAPHORE.acquire() returns to a lane, which sends its request
ModrinthLaneAcquire ==
    /\ http.modrinth.waiting > 0
    /\ PermitsTaken < ModrinthPermits
    /\ http' = [http EXCEPT !.modrinth.waiting = @ - 1,
                            !.modrinth.in_flight = @ + 1]
    /\ UNCHANGED <<supervisor, ruling, downloading, launch,
                   selecting, versioning, login, store, installer>>

\* the lane's response has been read: the permit is dropped
ModrinthLaneDone ==
    /\ http.modrinth.in_flight > 0
    /\ http' = [http EXCEPT !.modrinth.in_flight = @ - 1]
    /\ UNCHANGED <<supervisor, ruling, downloading, launch,
                   selecting, versioning, login, store, installer>>

\* another command calls a function of modrinth.rs (search_projects,
\* get_project, get_version, download_mod_file, ..): it asks for a permit
ModrinthCommand ==
    /\ http.modrinth.commands_waiting + http.modrinth.commands_in_flight
          < MaxRequests
    /\ http' = [http EXCEPT !.modrinth.commands_waiting = @ + 1]
    /\ UNCHANGED <<supervisor, ruling, downloading, launch,
                   selecting, versioning, login, store, installer>>

ModrinthCommandAcquire ==
    /\ http.modrinth.commands_waiting > 0
    /\ PermitsTaken < ModrinthPermits
    /\ http' = [http EXCEPT !.modrinth.commands_waiting = @ - 1,
                            !.modrinth.commands_in_flight = @ + 1]
    /\ UNCHANGED <<supervisor, ruling, downloading, launch,
                   selecting, versioning, login, store, installer>>

ModrinthCommandDone ==
    /\ http.modrinth.commands_in_flight > 0
    /\ http' = [http EXCEPT !.modrinth.commands_in_flight = @ - 1]
    /\ UNCHANGED <<supervisor, ruling, downloading, launch,
                   selecting, versioning, login, store, installer>>

\* curseforge::install_modpack comes to the download of its required files
CurseForgeInstall(files) ==
    /\ http.curseforge.entries + http.curseforge.in_flight = 0
    /\ http' = [http EXCEPT !.curseforge.entries = files]
    /\ UNCHANGED <<supervisor, ruling, downloading, launch,
                   selecting, versioning, login, store, installer>>

\* a lane of the install takes the next file and sends its request
CurseForgeLane ==
    /\ http.curseforge.entries > 0
    /\ http.curseforge.in_flight < CurseForgeLanes
    /\ http' = [http EXCEPT !.curseforge.entries = @ - 1,
                            !.curseforge.in_flight = @ + 1]
    /\ UNCHANGED <<supervisor, ruling, downloading, launch,
                   selecting, versioning, login, store, installer>>

CurseForgeLaneDone ==
    /\ http.curseforge.in_flight > 0
    /\ http' = [http EXCEPT !.curseforge.in_flight = @ - 1]
    /\ UNCHANGED <<supervisor, ruling, downloading, launch,
                   selecting, versioning, login, store, installer>>

\* another command calls a function of curseforge.rs (search_projects,
\* get_modpack, get_modpack_versions, ..): it sends its request
CurseForgeCommand ==
    /\ http.curseforge.commands_in_flight < MaxRequests
    /\ http' = [http EXCEPT !.curseforge.commands_in_flight = @ + 1]
    /\ UNCHANGED <<supervisor, ruling, downloading, launch,
                   selecting, versioning, login, store, installer>>

CurseForgeCommandDone ==
    /\ http.curseforge.commands_in_flight > 0
    /\ http' = [http EXCEPT !.curseforge.commands_in_flight = @ - 1]
    /\ UNCHANGED <<supervisor, ruling, downloading, launch,
                   selecting, versioning, login, store, installer>>

NextHttp ==
    \/ \E files \in 1..MaxFiles : ModrinthInstall(files)
    \/ ModrinthLane
    \/ ModrinthLaneAcquire
    \/ ModrinthLaneDone
    \/ ModrinthCommand
    \/ ModrinthCommandAcquire
    \/ ModrinthCommandDone
    \/ \E files \in 1..MaxFiles : CurseForgeInstall(files)
    \/ CurseForgeLane
    \/ CurseForgeLaneDone
    \/ CurseForgeCommand
    \/ CurseForgeCommandDone

(* ------------------------------- services ----------------------------- *)



\* none of them is running
ServicesIdle ==
    /\ SelectingIdle
    /\ VersioningIdle
    /\ LoginIdle
    /\ StoreIdle
    /\ InstallerIdle
    /\ HttpIdle

(* --------------------------- specifications --------------------------- *)

\* nothing is being prepared
PreparationIdle == RulingIdle /\ DownloadingIdle /\ LaunchingIdle /\ ServicesIdle

Init == SupervisorInit /\ PreparationIdle

\* the evaluation of one rule list
InitRules ==
    SupervisorInit /\ RulingInit /\ DownloadingIdle /\ LaunchingIdle /\ ServicesIdle

SpecRules == InitRules /\ [][Evaluate]_vars

\* download_file calls on one path, overlapping in any way
InitDownload ==
    SupervisorInit /\ RulingIdle /\ DownloadingInit /\ LaunchingIdle /\ ServicesIdle

SpecDownload == InitDownload /\ [][NextDownload]_vars

InitJava ==
    /\ SupervisorInit /\ RulingIdle /\ DownloadingIdle /\ LaunchingIdle
    /\ SelectingInit
    /\ VersioningIdle /\ LoginIdle /\ StoreIdle /\ InstallerIdle /\ HttpIdle

\* downloads of one artifact that do not overlap
SpecDownloadAlone == InitDownload /\ [][NextDownloadAlone]_vars

\* one call of select_java_for_launch
SpecJava == InitJava /\ [][SelectJava]_vars

InitVersion ==
    /\ SupervisorInit /\ RulingIdle /\ DownloadingIdle /\ LaunchingIdle
    /\ SelectingIdle
    /\ VersioningInit
    /\ LoginIdle /\ StoreIdle /\ InstallerIdle /\ HttpIdle

\* one call of download_version
SpecVersion == InitVersion /\ [][NextVersion]_vars

InitAccounts == Init

\* the commands on accounts.json, one after the other
SpecAccounts == InitAccounts /\ [][NextAccounts]_vars

InitLogin == Init

\* device-code login flows, one after the other
SpecLogin == InitLogin /\ [][NextLogin]_vars

InitInstaller ==
    /\ SupervisorInit
    /\ RulingIdle
    /\ DownloadingIdle
    /\ LaunchingIdle
    /\ SelectingIdle
    /\ VersioningIdle
    /\ LoginIdle
    /\ StoreIdle
    /\ HttpIdle
    /\ InstallerInit

\* one call of install_forge or install_neoforge
SpecInstaller == InitInstaller /\ [][NextInstaller]_vars

InitHttp == Init

\* commands that call Modrinth and CurseForge, concurrently
SpecHttp == InitHttp /\ [][NextHttp]_vars

\* one call of launch_game
InitLaunchGame ==
    SupervisorInit /\ RulingIdle /\ DownloadingIdle /\ LaunchingInit /\ ServicesIdle

SpecLaunchGame == InitLaunchGame /\ [][NextLaunchGame]_vars

\* the steps of the threads that are running, of the games and of the clock
Background ==
    \/ Tick
    \/ \E p \in Pids : GameExit(p)
    \/ \E t \in Tasks : LaunchRefused(t)
    \/ \E t \in Tasks, json_ok \in BOOLEAN : LaunchCheck(t, json_ok)
    \/ \E t \in Tasks : LaunchStatsLoad(t)
    \/ \E t \in Tasks : LaunchStatsSave(t)
    \/ \E t \in Tasks : LaunchFailed(t)
    \/ \E t \in Tasks : LaunchSpawned(t)
    \/ \E t \in Tasks : LaunchSessLoad(t)
    \/ \E t \in Tasks : LaunchSessSave(t)
    \/ \E t \in Tasks : LaunchRegister(t)
    \/ \E t \in Tasks : LaunchWatch(t)
    \/ \E p \in Pids : WatcherWake(p)
    \/ \E p \in Pids : WatcherGet(p)
    \/ \E p \in Pids : WatcherUpdLoad(p)
    \/ \E p \in Pids : WatcherUpdSave(p)
    \/ \E p \in Pids : WatcherLog(p)
    \/ \E p \in Pids : WatcherClrLoad(p)
    \/ \E p \in Pids : WatcherClrSave(p)
    \/ \E p \in Pids : WatcherUnregister(p)
    \/ KillUnregister
    \/ KillClrLoad
    \/ KillClrSave

\* no command is being served
CommandsIdle ==
    /\ \A t \in Tasks : task[t].pc = "idle"
    /\ killer.pc = "idle"

NextSolo ==
    \/ Background
    \/ \E i \in Instances : CommandsIdle /\ LaunchBegin(i)
    \/ \E i \in Instances : CommandsIdle /\ KillRefused(i)
    \/ \E i \in Instances : CommandsIdle /\ KillTerminate(i)

\* the launcher runs without interruption and the user waits for a command to
\* return before the next one is sent; watchers and games run on their own
SpecSolo == Init /\ [][NextSolo]_vars

NextLive ==
    \/ Background
    \/ \E i \in Instances : LaunchBegin(i)
    \/ \E i \in Instances : KillRefused(i)
    \/ \E i \in Instances : KillTerminate(i)

\* the launcher runs without interruption; commands overlap
SpecLive == Init /\ [][NextLive]_vars

Next ==
    \/ NextLive
    \/ LongGap
    \/ Crash
    \/ Startup

\* commands overlap and the launcher may be killed and started again
Spec == Init /\ [][Next]_vars

(* ------------------------------- claims ------------------------------- *)

\* the games that are running and were spawned for instance i
LiveOf(i) == {p \in alive : owner[p] = i}

\* no launch, exit, kill or recovery step is in progress
Settled ==
    /\ up
    /\ \A t \in Tasks : task[t].pc = "idle"
    /\ killer.pc = "idle"
    /\ \A p \in Pids : \/ watcher[p].pc \in {"none", "done"}
                       \/ watcher[p].pc = "wait" /\ p \in alive

\* C1: once every operation has run to its end, RUNNING_PROCESSES holds an
\* instance exactly when a game spawned for it is alive, and the entry names
\* that game.
C1_RunningIffAlive ==
    Settled =>
        \A i \in Instances :
            /\ (i \in DOMAIN RUNNING_PROCESSES) <=> (LiveOf(i) # {})
            /\ i \in DOMAIN RUNNING_PROCESSES => RUNNING_PROCESSES[i].pid \in LiveOf(i)

\* C2: at most one game process spawned for an instance is alive at a time.
C2_OneLiveGamePerInstance ==
    \A i \in Instances : Cardinality(LiveOf(i)) <= 1

\* C3: no step decreases the playtime_seconds of an instance.
C3_PlaytimeMonotone ==
    [][\A i \in Instances :
          instFile'[i].playtime_seconds >= instFile[i].playtime_seconds]_vars

\* a step in which an operation on instance i saves instances.json
SavesInstance(i) ==
    \/ \E t \in Tasks : task[t].pc = "stats_save" /\ task[t].id = i
                        /\ task'[t].pc = "launch_game"
    \/ \E p \in Pids : watcher[p].pc = "upd_save" /\ watcher[p].id = i
                       /\ watcher'[p].pc = "log"

\* a step in which an operation on instance i saves active_sessions.json
SavesSession(i) ==
    \/ \E t \in Tasks : task[t].pc = "sess_save" /\ task[t].id = i
                        /\ task'[t].pc # "sess_save"
    \/ \E p \in Pids : watcher[p].pc = "clr_save" /\ watcher[p].id = i
                       /\ watcher'[p].pc = "unreg"
    \/ killer.pc = "clr_save" /\ killer.id = i /\ killer'.pc = "idle"

\* the session of instance i on file, or nothing
SessionOf(file, i) == IF i \in DOMAIN file THEN {file[i]} ELSE {}

\* C4: an update of one instance's record or session never undoes what a
\* concurrent operation wrote for another instance: the part of either file
\* that belongs to instance i changes only in a save of an operation on i.
C4_NoLostUpdate ==
    [][\A i \in Instances :
          /\ instFile'[i] # instFile[i] => SavesInstance(i)
          /\ SessionOf(sessFile', i) # SessionOf(sessFile, i) => SavesSession(i)]_vars

\* the launcher comes up: recover_orphaned_sessions and the loop of run
StartupStep == ~up /\ up'

\* watcher p takes the step that leaves `from` for `to`
WatcherStep(p, from, to) == watcher[p].pc = from /\ watcher'[p].pc = to

C6_DeadSessionCreditedWithinCap ==
    [][StartupStep =>
          \A i \in DOMAIN sessFile :
              sessFile[i].pid \notin alive =>
                  /\ i \notin DOMAIN sessFile'
                  /\ instFile'[i].playtime_seconds =
                        instFile[i].playtime_seconds +
                            (IF now - sessFile[i].start_time <= 86400
                             THEN now - sessFile[i].start_time ELSE 0)]_vars

\* C6 witness: one startup credited a session of exactly 24 h and discarded
\* one that was a second older.
C6_Witness ==
    /\ up
    /\ sessFile = EmptyMap
    /\ \E e \in startupLog :
          /\ e.outcome = "credited"
          /\ now - e.start_time = 86400
          /\ instFile[e.instance_id].playtime_seconds = e.original_playtime + 86400
    /\ \E e \in startupLog :
          /\ e.outcome = "discarded"
          /\ now - e.start_time = 86401
          /\ instFile[e.instance_id].playtime_seconds = e.original_playtime

\* C7: whenever no operation is in progress, active_sessions.json holds the
\* instances of RUNNING_PROCESSES, each with the same pid and start_time.
C7_SessionFileMirrorsMap ==
    Settled =>
        /\ DOMAIN sessFile = DOMAIN RUNNING_PROCESSES
        /\ \A i \in DOMAIN sessFile :
              /\ sessFile[i].pid = RUNNING_PROCESSES[i].pid
              /\ sessFile[i].start_time = RUNNING_PROCESSES[i].start_time

\* what the exit-watcher of launch_instance does once its game is gone, with
\* `logs` telling when log_session appends a record
WatcherCleansUp(p, logs(_)) ==
    LET w == watcher[p]
        d == w.end_time - w.start_time
    IN  /\ WatcherStep(p, "wait", "get") =>
              p \notin alive /\ watcher'[p].end_time = now
        /\ WatcherStep(p, "get", "upd_load") =>
              watcher'[p].inst =
                  [instFile[w.id] EXCEPT
                      !.playtime_seconds = instFile[w.id].playtime_seconds + d]
        /\ WatcherStep(p, "upd_save", "log") =>
              instFile'[w.id] = w.inst /\ credited'[p] = credited[p] + 1
        /\ WatcherStep(p, "log", "clr_load") =>
              IF logs(d)
              THEN history' = Append(history,
                                [instance_id |-> w.id, timestamp |-> w.end_time,
                                 duration_seconds |-> d])
              ELSE history' = history
        /\ WatcherStep(p, "clr_save", "unreg") => w.id \notin DOMAIN sessFile'
        /\ WatcherStep(p, "unreg", "done") =>
              w.id \notin DOMAIN RUNNING_PROCESSES' /\ credited[p] = 1

Always(d) == TRUE

Positive(d) == d > 0

KillCleansUp(logs(_)) ==
    /\ (killer.pc = "idle" /\ killer'.pc = "unreg") =>
          /\ killer'.id \in DOMAIN RUNNING_PROCESSES
          /\ killer'.pid = RUNNING_PROCESSES[killer'.id].pid
          /\ killer'.pid \notin alive'
          /\ \/ watcher[killer'.pid].pc # "none"
             \/ \E t \in Tasks : task[t].pc = "watch" /\ task[t].pid = killer'.pid
    /\ (killer.pc = "unreg" /\ killer'.pc = "clr_load") =>
          killer.id \notin DOMAIN RUNNING_PROCESSES'
    /\ (killer.pc = "clr_save" /\ killer'.pc = "idle") =>
          killer.id \notin DOMAIN sessFile'
    /\ \A p \in killed :
          /\ p \notin alive
          /\ WatcherCleansUp(p, logs)
          /\ \A i \in DOMAIN RUNNING_PROCESSES' :
                (killer'.pc \in {"idle", "clr_load", "clr_save"} \/ killer'.pid # p)
                    => RUNNING_PROCESSES'[i].pid # p

LaunchFails(t) ==
    /\ task'[t].pc = "idle"
    /\ \/ task[t].pc = "check" /\ task[t].id \notin DOMAIN RUNNING_PROCESSES
       \/ task[t].pc = "launch_game"

\* C10: when launch_instance fails in its preparation, the record of the
\* instance is the one the launch found, and the instance is neither in
\* RUNNING_PROCESSES nor in the session file.
C10_FailedLaunchTouchesNothing ==
    [][\A t \in Tasks :
          LaunchFails(t) =>
              /\ instFile'[task[t].id] = task[t].instance
              /\ task[t].id \notin DOMAIN RUNNING_PROCESSES'
              /\ task[t].id \notin DOMAIN sessFile']_vars

\* invocation t of launch_instance executes the statement `step`
Does(t, step) == up' /\ task[t].pc = step /\ task'[t].pc # step

\* invocation t has executed the statement `step`
Did(t, step) == \E k \in DOMAIN task[t].did : task[t].did[k] = step

\* C11 as stated: after the spawn, the entry is recorded in RUNNING_PROCESSES
\* before the session is written to active_sessions.json, and the watcher is
\* started after both.
C11_Original ==
    [][\A t \in Tasks :
          /\ Does(t, "sess_save") => Did(t, "register")
          /\ Does(t, "watch") => Did(t, "register") /\ Did(t, "sess_save")]_vars

\* C11 as amended: the session is written to active_sessions.json before the
\* entry is recorded in RUNNING_PROCESSES, and the watcher is started after
\* both.
C11_SessionThenMapThenWatcher ==
    [][\A t \in Tasks :
          /\ Does(t, "sess_save") =>
                /\ ~Did(t, "register")
                /\ sessFile'[task[t].id].pid = task[t].pid
          /\ Does(t, "register") =>
                /\ Did(t, "sess_save")
                /\ RUNNING_PROCESSES'[task[t].id] =
                      [pid |-> task[t].pid, start_time |-> task[t].start_time]
                /\ watcher[task[t].pid].pc = "none"
          /\ Does(t, "watch") =>
                /\ Did(t, "sess_save") /\ Did(t, "register")
                /\ watcher'[task[t].pid].pc = "wait"]_vars

\* C11 witness: a launch has returned Ok: its session is on file, its entry is
\* in RUNNING_PROCESSES and its watcher waits for the game.
C11_Witness ==
    \E p \in alive :
        /\ \A t \in Tasks : task[t].pc = "idle"
        /\ watcher[p].pc = "wait" /\ watcher[p].kind = "child"
        /\ owner[p] \in DOMAIN sessFile /\ sessFile[owner[p]].pid = p
        /\ owner[p] \in DOMAIN RUNNING_PROCESSES
        /\ RUNNING_PROCESSES[owner[p]].pid = p

\* the rule list that was evaluated, and what the evaluation returned
TheRules == CHOOSE l \in rules : TRUE

TheVerdict == CHOOSE v \in verdict : TRUE

Evaluated == verdict # {}

LibraryApplies(rule) == library_rule_applies(rule, get_os_name)

ArgumentApplies(rule) ==
    argument_rule_applies(rule, get_os_name, has_custom_resolution)

\* the action of the last rule of rs that applies; deny when none does
LastApplicable(applies(_), rs) ==
    LET K == {k \in DOMAIN rs : applies(rs[k])}
    IN  IF K = {}
        THEN FALSE
        ELSE rs[CHOOSE k \in K : \A j \in K : j <= k].action = "allow"

AllowOtherOs == <<[action |-> "allow", os |-> {"windows"}, features |-> EmptyMap]>>

AllowThenDenyHost ==
    <<[action |-> "allow", os |-> {}, features |-> EmptyMap],
      [action |-> "deny", os |-> {get_os_name}, features |-> EmptyMap]>>

\* C14: a rule list evaluates to the action of its last rule that applies and
\* to deny when no rule applies, as the list of a library and as the list of
\* an argument; [{allow, os: other}] and [{allow}, {deny, os: host}] exclude.
C14_LastApplicableWins ==
    (Evaluated /\ rules # {}) =>
        /\ TheVerdict.library = LastApplicable(LibraryApplies, TheRules)
        /\ TheVerdict.argument = LastApplicable(ArgumentApplies, TheRules)
        /\ TheRules \in {AllowOtherOs, AllowThenDenyHost} =>
              ~TheVerdict.library /\ ~TheVerdict.argument

\* C14 witness: [{allow}, {deny, os: host}] was evaluated and excludes.
C14_Witness ==
    /\ Evaluated
    /\ rules = {AllowThenDenyHost}
    /\ TheVerdict.library = FALSE /\ TheVerdict.argument = FALSE

\* C15 as stated: a rule list that is present and empty includes, for a
\* library and for an argument.
C15_Original ==
    (Evaluated /\ rules = {<<>>}) => TheVerdict.library /\ TheVerdict.argument

\* C15 as amended: a rule list that is present and empty excludes, for a
\* library and for an argument; only an absent rule list includes.
C15_EmptyListExcludes ==
    Evaluated =>
        /\ rules = {<<>>} => ~TheVerdict.library /\ ~TheVerdict.argument
        /\ rules = {} => TheVerdict.library /\ TheVerdict.argument

\* C15 witness: the empty list was evaluated and excludes.
C15_Witness ==
    /\ Evaluated
    /\ rules = {<<>>}
    /\ TheVerdict.library = FALSE /\ TheVerdict.argument = FALSE

\* the features the launcher knows
KnownFeatures == {"is_demo_user", "has_custom_resolution"} \cup QuickPlayFeatures

\* the value the feature policy gives a known feature
FeaturePolicy(f) ==
    IF f = "has_custom_resolution" THEN has_custom_resolution ELSE FALSE

\* every condition the rule specifies matches
EveryConditionMatches(rule) ==
    /\ rule.os = {} \/ rule.os = {get_os_name}
    /\ \A f \in DOMAIN rule.features : rule.features[f] = FeaturePolicy(f)

\* C16: a rule of an argument whose features are all known applies exactly
\* when its os, if any, is the host and each of its features has the value
\* the feature policy gives it.
C16_AppliesIffEveryConditionMatches ==
    (Evaluated /\ rules # {}) =>
        \A k \in DOMAIN TheRules :
            DOMAIN TheRules[k].features \subseteq KnownFeatures =>
                (TheVerdict.applies[k] <=> EveryConditionMatches(TheRules[k]))

\* C17: an argument all of whose rules are gated on a feature the launcher
\* does not know is excluded.
C17_UnknownFeatureExcludes ==
    (/\ Evaluated
     /\ rules # {}
     /\ TheRules # <<>>
     /\ \A k \in DOMAIN TheRules :
            ~(DOMAIN TheRules[k].features \subseteq KnownFeatures))
        => ~TheVerdict.argument

\* every download has returned, none for an error of the request or with
\* bytes that are not the artifact
AllDownloaded ==
    \A d \in Downloads :
        /\ download[d].pc = "done"
        /\ download[d].result # "Err(http)"
        /\ download[d].body # "other"

\* C13: downloads of one artifact with one expected hash that overlap all
\* return Ok and leave the file with that hash at the path.
C13_ConcurrentDownloadsSucceed ==
    (AllDownloaded /\ expected_sha1 = {"sha1"}) =>
        /\ \A d \in Downloads : download[d].result = "Ok"
        /\ verify_sha1(disk, "sha1")

\* the phases launch_game has completed
PhasesDone == {launching.done[k] : k \in DOMAIN launching.done}

\* the phases as launch_game runs them
LaunchPhases ==
    <<"merge", "client", "libraries", "java", "classpath", "extract", "spawn">>

\* the phases in the order the ordering guarantee gives
GuaranteedPhases ==
    <<"client", "libraries", "assets", "loader", "merge", "extract", "spawn">>

Position(order, phase) == CHOOSE k \in DOMAIN order : order[k] = phase

\* the completed phases that `order` names were completed in its order
CompletedInOrder(order) ==
    LET named == {order[k] : k \in DOMAIN order}
    IN \A i, j \in DOMAIN launching.done :
          (i < j /\ launching.done[i] \in named /\ launching.done[j] \in named)
              => Position(order, launching.done[i]) < Position(order, launching.done[j])

\* a phase of `order` is completed only when all before it are, and the game
\* is spawned only when all of them are
NoPhaseSkipped(order) ==
    /\ \A k \in DOMAIN order :
          order[k] \in PhasesDone => \A j \in 1..(k - 1) : order[j] \in PhasesDone
    /\ launching.spawned => \A k \in DOMAIN order : order[k] \in PhasesDone

\* a launch that failed has spawned no game
NoSpawnAfterFailure ==
    launching.pc = "failed" => (~launching.spawned /\ "spawn" \notin PhasesDone)

C12_WitnessFailure ==
    launching.pc = "failed" /\ launching.error = "libraries"

\* the loader's version JSON has been laid over the vanilla descriptor
Overlaid ==
    /\ "merge" \in PhasesDone
    /\ descriptors.mod_loader = "Forge"
    /\ descriptors.details # {}

TheDetails == CHOOSE d \in descriptors.details : TRUE

\* C18: after the overlay no two libraries of the merged list have the same
\* group:artifact[:classifier] identity.
C18_MergedIdentitiesDistinct ==
    Overlaid =>
        LET merged == launching.actual_version_details.libraries
        IN \A i, j \in DOMAIN merged :
              i # j => get_lib_identity(merged[i].name) # get_lib_identity(merged[j].name)

\* the classpath has been built
ClasspathBuilt == "classpath" \in PhasesDone

\* the elements that are the first of their identity, in construction order
FirstOfIdentity(elements) ==
    {k \in DOMAIN elements :
        \A j \in 1..(k - 1) :
            get_lib_identity(elements[j].name) # get_lib_identity(elements[k].name)}

\* the n-th smallest member of a set of indices
Nth(indices, n) ==
    CHOOSE k \in indices : Cardinality({j \in indices : j < k}) = n - 1

\* the elements that come from the loader: Fabric's libraries, or the
\* libraries of the version JSON of Forge
LoaderElements ==
    IF descriptors.mod_loader = "Fabric"
    THEN get_fabric_classpath(descriptors.fabric_info, launching.libraries_dir)
    ELSE IF descriptors.mod_loader = "Forge" /\ descriptors.details # {}
    THEN libraries_elements(TheDetails.libraries, launching.libraries_dir)
    ELSE <<>>

\* C19: the final classpath is the elements that are the first of their
\* identity, in construction order, followed by the client JAR; for an
\* identity the loader has an element of, the element kept is the loader's
\* first.
C19_FirstOccurrenceKept ==
    ClasspathBuilt =>
        LET elements == launching.classpath_elements
            final == launching.final_paths
            first == FirstOfIdentity(elements)
            same(a, b) == get_lib_identity(a.name) = get_lib_identity(b.name)
        IN /\ Len(final) = Cardinality(first) + 1
           /\ \A n \in 1..Cardinality(first) : final[n] = elements[Nth(first, n)].path
           /\ \A m, n \in 1..Cardinality(first) :
                 m # n => ~same(elements[Nth(first, m)], elements[Nth(first, n)])
           /\ final[Len(final)] = client_jar(launching.actual_version_details.id)
           /\ \A k \in first :
                 \A j \in DOMAIN LoaderElements :
                     (/\ same(LoaderElements[j], elements[k])
                      /\ \A i \in 1..(j - 1) : ~same(LoaderElements[i], LoaderElements[j]))
                         => elements[k] = LoaderElements[j]

\* C19 witness: the loader and the vanilla descriptor have a library of one
\* identity in two versions, both on disk, and the classpath is built.
C19_Witness ==
    /\ ClasspathBuilt
    /\ LoaderElements # <<>>
    /\ \E j, k \in DOMAIN launching.classpath_elements :
          /\ j < k
          /\ get_lib_identity(launching.classpath_elements[j].name)
               = get_lib_identity(launching.classpath_elements[k].name)
          /\ launching.classpath_elements[j].path # launching.classpath_elements[k].path
    /\ \E k \in DOMAIN descriptors.version_details.libraries :
          /\ should_use_library(descriptors.version_details.libraries[k].rules)
          /\ \E j \in DOMAIN LoaderElements :
                /\ get_lib_identity(LoaderElements[j].name)
                     = get_lib_identity(descriptors.version_details.libraries[k].name)
                /\ LoaderElements[j].name # descriptors.version_details.libraries[k].name

\* both descriptors carry the modern list `field` of arguments
BothCarry(field) ==
    /\ Overlaid
    /\ TheDetails.arguments # {}
    /\ descriptors.version_details.arguments # {}
    /\ (CHOOSE a \in TheDetails.arguments : TRUE)[field] # {}
    /\ (CHOOSE a \in descriptors.version_details.arguments : TRUE)[field] # {}

LoaderList(field) ==
    CHOOSE l \in (CHOOSE a \in TheDetails.arguments : TRUE)[field] : TRUE

VanillaList(field) ==
    CHOOSE l \in (CHOOSE a \in descriptors.version_details.arguments : TRUE)[field] : TRUE

\* the list `field` of the merged descriptor is `list`
MergedIs(field, list) ==
    /\ launching.actual_version_details.arguments # {}
    /\ (CHOOSE a \in launching.actual_version_details.arguments : TRUE)[field] = {list}

\* C20 (as stated): when both descriptors carry modern argument lists, the
\* merged game list and the merged jvm list are the loader's arguments
\* followed by vanilla's.
C20_Original ==
    \A field \in {"game", "jvm"} :
        BothCarry(field) => MergedIs(field, LoaderList(field) \o VanillaList(field))

\* C20 (amended): when both descriptors carry modern argument lists and the
\* loader's carries no legacy arguments, the merged game list and the merged
\* jvm list are vanilla's arguments followed by the loader's.
C20_VanillaThenLoader ==
    \A field \in {"game", "jvm"} :
        (BothCarry(field) /\ TheDetails.minecraft_arguments = {})
            => MergedIs(field, VanillaList(field) \o LoaderList(field))

\* C20 witness: both descriptors carry both lists and the overlay is done.
C20_Witness ==
    /\ BothCarry("game")
    /\ BothCarry("jvm")
    /\ TheDetails.minecraft_arguments = {}

\* select_java_for_launch has returned a Java
JavaSelected == selecting.pc = "done" /\ selecting.result.ok

\* C21: with a required major version N in the descriptor, the Java that
\* select_java_for_launch returns is a file whose major version is at least N.
C21_NeverBelowRequired ==
    (JavaSelected /\ selecting.java_version # {}) =>
        /\ selecting.result.java.exists
        /\ \A n \in selecting.java_version : selecting.result.java.major >= n

\* the places a Java may come from
JavasAround ==
    selecting.java_path \cup selecting.settings \cup selecting.host.JAVA_HOME
    \cup selecting.host.which
    \cup {selecting.host.usr_lib_jvm[k].java : k \in DOMAIN selecting.host.usr_lib_jvm}

\* C22: for a descriptor without a Java requirement whose main class is
\* net.minecraft.launchwrapper.Launch, the Java returned is a Java 8, and an
\* error is returned when there is no Java 8 anywhere.
C22_LegacyGetsJava8 ==
    (/\ selecting.pc = "done"
     /\ selecting.java_version = {}
     /\ selecting.main_class = LegacyMainClass)
        => /\ selecting.result.ok =>
                (selecting.result.java.exists /\ selecting.result.java.major = 8)
           /\ (\A j \in JavasAround : ~(j.exists /\ j.major = 8))
                => ~selecting.result.ok

\* download `d` returns Ok in this step
ReturnsOk(d) == download[d].result # "Ok" /\ download'[d].result = "Ok"

\* a hash is expected
HashExpected == expected_sha1 # {} /\ expected_sha1 # {""}

\* C23: a download that is given a hash returns Ok only with a file of that
\* hash at the path, so a file of another hash that is already there makes it
\* request the artifact; a download given no hash, or an empty one, returns
\* Ok without a request only when there is a file.
C23_NoSuccessOnMismatch ==
    [][\A d \in Downloads :
          /\ (ReturnsOk(d) /\ HashExpected) =>
                verify_sha1(disk', CHOOSE h \in expected_sha1 : TRUE)
          /\ (download[d].pc = "idle" /\ download'[d].pc # "idle" /\ HashExpected
              /\ ~verify_sha1(disk, CHOOSE h \in expected_sha1 : TRUE))
                => download'[d].pc = "get"
          /\ (download[d].pc = "idle" /\ ReturnsOk(d) /\ ~HashExpected)
                => exists(disk)]_vars

\* C23 witnesses: a download has found a file of another hash and is
\* requesting the artifact; a download received other bytes and returned an
\* error.
C23_Witness ==
    /\ HashExpected
    /\ exists(disk)
    /\ ~verify_sha1(disk, "sha1")
    /\ \E d \in Downloads : download[d].pc = "get"

C23_WitnessRejected ==
    /\ HashExpected
    /\ \E d \in Downloads :
          download[d].body = "other" /\ download[d].result = "Err(sha1)"

\* download_version has returned Ok
VersionDownloaded == versioning.pc = "done"

\* C24 (as stated): after download_version returns Ok the client JAR is at
\* its path with the hash downloads.client.sha1 gives, and the version JSON
\* is next to it.
C24_Original ==
    VersionDownloaded =>
        /\ \E d \in versioning.downloads :
              versioning.jar = "artifact" /\ d.sha1 = "sha1"
        /\ versioning.json

\* C24 (amended): after download_version returns Ok for a descriptor whose
\* downloads.client.sha1 is not empty, the client JAR is at its path with
\* that hash and the version JSON is next to it.
C24_JarVerifiedWhenHashGiven ==
    (VersionDownloaded /\ versioning.downloads = {[sha1 |-> "sha1"]}) =>
        /\ versioning.jar = "artifact"
        /\ versioning.json

\* C24 witness: download_version has returned Ok for a descriptor with a
\* hash of the client JAR.
C24_Witness ==
    VersionDownloaded /\ versioning.downloads = {[sha1 |-> "sha1"]}

\* accounts.json
TheAccounts == store.data.accounts

StoredNames == {TheAccounts[k].username : k \in DOMAIN TheAccounts}

\* C30: active_account names an account of the list whenever the list is not
\* empty, and is absent when the list is empty.
C30_ActiveAccountIsStored ==
    IF TheAccounts = <<>>
    THEN store.data.active_account = {}
    ELSE store.data.active_account # {}
         /\ store.data.active_account \subseteq StoredNames

\* this step is a successful refresh_account(username)
Refreshed(username) ==
    /\ store'.commands = store.commands + 1
    /\ store'.last = Did_("refresh_account", username, TRUE)

\* the place in accounts.json of the account that refresh_account(username)
\* works on
RefreshedAt(username) ==
    LET named(a) == a.username = username
    IN position(TheAccounts, named)

\* the account at that place has a new access token and its old uuid, and
\* every other account is as it was
TokenReplaced(username) ==
    LET idx == RefreshedAt(username)
    IN /\ Len(store'.data.accounts) = Len(TheAccounts)
       /\ store'.data.accounts[idx].access_token # TheAccounts[idx].access_token
       /\ store'.data.accounts[idx].uuid = TheAccounts[idx].uuid
       /\ \A k \in DOMAIN TheAccounts :
             k # idx => store'.data.accounts[k] = TheAccounts[k]

Decided == login.pc = "returned" /\ login'.pc # "returned"

Extracted ==
    \/ installer.files \cap {"version json", "forge library"} # {}
    \/ installer.version_id # {}

\* the installer at hand is one of legacy Forge
LegacyForge ==
    installer.loader = "forge" /\ LegacyParts \subseteq installer.parts

\* C27: manual extraction happens only after the vendor installer has failed
\* for legacy Forge; a failed installer of any other Forge version or of
\* NeoForge ends in an error.
C27_FallbackOnlyForLegacyForge ==
    /\ Extracted => installer.exit = "failure" /\ LegacyForge
    /\ (installer.pc = "returned" /\ installer.exit \in Exits \ {"success"}
        /\ ~LegacyForge)
          => ~installer.ok

\* C27: the installer of a legacy Forge failed and the installation succeeded
\* by manual extraction.
C27_Witness ==
    /\ installer.pc = "returned"
    /\ installer.ok
    /\ installer.exit = "failure"
    /\ LegacyForge
    /\ {"version json", "forge library", "forge.json"} \subseteq installer.files

\* C27: the installer of a Forge that is not legacy failed and the
\* installation returned an error with nothing extracted.
C27_WitnessHardError ==
    /\ installer.pc = "returned"
    /\ ~installer.ok
    /\ installer.exit = "failure"
    /\ installer.loader = "forge"
    /\ "profile" \in installer.parts
    /\ "install" \notin installer.parts
    /\ ~Extracted

\* the requests to a site that have been sent and not yet answered in full
ModrinthInFlight == http.modrinth.in_flight + http.modrinth.commands_in_flight

CurseForgeInFlight ==
    http.curseforge.in_flight + http.curseforge.commands_in_flight

\* at most ten requests to Modrinth are in flight
ModrinthBounded == ModrinthInFlight <= 10

\* C28: at most 10 HTTP calls to Modrinth and at most 10 to CurseForge are in
\* flight at any time, whatever commands and modpack installs run.
C28_AtMostTenInFlight ==
    /\ ModrinthBounded
    /\ CurseForgeInFlight <= 10

\* C29: the session of every game process is credited to playtime_seconds at
\* most once, whether by its exit-watcher or by startup recovery, across
\* restarts of the launcher and with other instances launched and exiting.
C29_CreditedAtMostOnce == \A p \in Pids : credited[p] <= 1

====
